---- MODULE Spec2Model ----
(***************************************************************************)
(* Model of the OBD-II sensor acquisition loops of the repository:         *)
(*   - cli_obd_loop.main (connect once, tick once per second, count        *)
(*     consecutive failed ticks, force a reconnect at max_failures);       *)
(*   - main.run_real_mode / main.reconnect_obd (reconnect on every failed  *)
(*     read).                                                              *)
(* The adapter, the OBD library, stdout and the HTTP sink are the          *)
(* environment: their outcomes are drawn nondeterministically.             *)
(***************************************************************************)
EXTENDS Integers, Sequences, FiniteSets, TLC

VARIABLES
    program,               \* "cli": cli_obd_loop.main, "real": main.run_real_mode
    pc,                    \* position of the loop
    connection,            \* the handle the loop holds: "none" (None), "elm", "car"
    closed,                \* close() has been called on the held handle
    consecutive_failures,  \* cli_obd_loop.main's counter
    world,                 \* what a connect attempt would meet right now
    \* observation variables (written, never read by the loop)
    lastTick,              \* outcome of the latest tick: "none", "ok", "fail"
    failRun,               \* failed ticks in a row, ending with the latest tick
    beforeRun,             \* failed ticks in a row just before the latest tick
    emitted,               \* Readings emitted by the latest tick
    source,                \* where the latest tick's Reading came from
    queries,               \* connection.query calls issued by the latest tick
    tickSim,               \* the latest tick started with no handle
    posted,                \* the latest tick's POST: "none" (not reached), "ok", "failed"
    hwCalls,               \* calls on adapter handles since the latest tick started
    closeSteps,            \* close steps since the latest tick started
    closeCalls,            \* handle.close() calls since the latest tick started
    connects,              \* connect_to_obd calls since the latest tick started
    log,                   \* the last connection-manager events
    prevConn,              \* the handle held before the latest connect
    lastEnv,               \* the world the latest connect attempt met
    lastClose,             \* how the latest close went
    leaked,                \* a handle was opened and dropped without a close()
    \* one call of a snapshot reader on a live handle
    rdFn,                  \* the reader called
    rdQ,                   \* what each per-signal query of the call meets
    rdDone,                \* the call has been made
    rdOut,                 \* what the call returned (or that it raised)
    lastObd,               \* data_manager._LAST_OBD_READING
    \* api_server: the trip state, the reading store and the requests in flight
    trip_active,           \* api_server.trip_active
    trip_start_time,       \* api_server.trip_start_time (NoTime: None)
    trip_end_time,         \* api_server.trip_end_time (NoTime: None)
    clock,                 \* what datetime.now(timezone.utc) returns
    readings,              \* the timestamps of the stored Readings
    reqOp,                 \* the handler each request thread runs
    reqPc,                 \* its position in the handler
    reqNow,                \* the instant it has read and not yet stored
    reqRes,                \* what it returns
    serial,                \* no two trip calls have overlapped so far
    preTrip,               \* the trip state when the latest call began
    tripsEnded,            \* a trip has been ended
    \* api_server: one call of an analytics endpoint over the stored Readings
    anOp,                  \* the endpoint called
    anStore,               \* the rows of the readings table, oldest first
    anWindow,              \* trip_start_time and trip_end_time of the ended trip
    anLimit,               \* the limit parameter of /stats
    anDone,                \* the call has been made
    anOut,                 \* what the call returned (or that it raised)
    \* main.generate_fake_reading: the calls made with one phase
    genCalls,              \* the Readings returned so far, oldest first
    \* obd_readings.csv, its logger and one dashboard reader
    csvFile,               \* the rows of the file
    csvLogged,             \* the rows CsvLogger.write has written, oldest first
    rdrPc,                 \* position of the reader in get_latest_reading
    rdrRows,               \* the reader's local list of readings
    \* tk_dashboard.DashboardApp and the Tk root it draws on
    data_source,           \* DashboardApp.data_source: "csv" or "obd"
    frame_count,           \* DashboardApp.frame_count
    simulated_mode,        \* DashboardApp.simulated_mode
    sim_label,             \* the simulated-mode label shows its text
    after_id,              \* DashboardApp.after_id (NoAfter: None)
    obd_connection,        \* DashboardApp.obd_connection: "none" (None), "held"
    pending,               \* the callbacks root.after has scheduled, not yet fired
    nextId,                \* the id root.after hands out next
    started,               \* root.protocol("WM_DELETE_WINDOW", ...) has been set
    destroyed,             \* root.destroy() has been called
    fetchLog,              \* the outcome of the data fetch of each refresh so far
    \* a run of calls of data_manager._read_obd_live
    lvCalls,               \* the calls made so far
    lvInjected,            \* the latest call was given a connection
    lvPath,                \* the path the latest call took ("none": no call yet)
    lvOpened,              \* the connections the latest call opened
    lvCloses,              \* the close() calls the latest call made
    lvDone,                \* the calls that returned a Reading, before the latest
    lvPrev,                \* the fields the latest of those calls returned
    \* main.run_fake_cycles
    shutdown_requested,    \* main._shutdown_requested
    fake_pc,               \* position in run_fake_cycles
    fake_count,            \* the parameter count
    fake_index,            \* the loop variable index (0 before the first cycle)
    fake_written,          \* the csv_logger.write calls made
    fake_completed,        \* the local completed
    fake_connects,         \* the connect_to_obd calls made by reconnect_obd(None)
    \* main.run_real_mode with a cycle limit
    max_cycles,            \* the parameter max_cycles (NoLimit: None)
    cycles_completed,      \* the local cycles_completed (counted under a limit)
    polls,                 \* the read_obd_pids calls made (counted under a limit)
    real_written,          \* the csv_logger.write calls made (counted under a limit)
    limitExit              \* the loop was left through the break at the limit

vars == << program, pc, connection, closed, consecutive_failures, world,
           lastTick, failRun, beforeRun, emitted, source, queries, tickSim, posted, hwCalls,
           closeSteps, closeCalls, connects, log, prevConn, lastEnv, lastClose,
           leaked, rdFn, rdQ, rdDone, rdOut, lastObd,
           trip_active, trip_start_time, trip_end_time, clock, readings,
           reqOp, reqPc, reqNow, reqRes, serial, preTrip, tripsEnded,
           anOp, anStore, anWindow, anLimit, anDone, anOut, genCalls,
           csvFile, csvLogged, rdrPc, rdrRows,
           data_source, frame_count, simulated_mode, sim_label, after_id,
           obd_connection, pending, nextId, started, destroyed, fetchLog,
           lvCalls, lvInjected, lvPath, lvOpened, lvCloses, lvDone, lvPrev,
           shutdown_requested, fake_pc, fake_count, fake_index, fake_written,
           fake_completed, fake_connects,
           max_cycles, cycles_completed, polls, real_written, limitExit >>

\* the state of the loops
loopVars == << program, pc, connection, closed, consecutive_failures, world,
               lastTick, failRun, beforeRun, emitted, source, queries, tickSim, posted,
               hwCalls, closeSteps, closeCalls, connects, log, prevConn, lastEnv,
               lastClose, leaked >>

\* the state of a reader call
readVars == << rdFn, rdQ, rdDone, rdOut, lastObd >>

\* the state of the API server
tripVars == << trip_active, trip_start_time, trip_end_time, clock, readings,
               reqOp, reqPc, reqNow, reqRes, serial, preTrip, tripsEnded >>

\* the state of an analytics call
anVars == << anOp, anStore, anWindow, anLimit, anDone, anOut >>

\* the state of the CSV file, its logger and its reader
csvVars == << csvFile, csvLogged, rdrPc, rdrRows >>

\* the stored data and the calls over it
\* the state of the dashboard
dashVars == << data_source, frame_count, simulated_mode, sim_label, after_id,
               obd_connection, pending, nextId, started, destroyed, fetchLog >>

\* the state of the dashboard and of the command-line runs
\* the state of a run of _read_obd_live calls
liveVars == << lvCalls, lvInjected, lvPath, lvOpened, lvCloses, lvDone, lvPrev >>

\* the state of a run_fake_cycles call
fakeVars == << shutdown_requested, fake_pc, fake_count, fake_index, fake_written,
               fake_completed, fake_connects >>

\* the cycle limit of run_real_mode and what is counted under it
runVars == << max_cycles, cycles_completed, polls, real_written, limitExit >>

auxVars == << dashVars, liveVars, fakeVars, runVars >>

dataVars == << anVars, genCalls, csvVars, auxVars >>

\* what a tick observes
tickObs == << lastTick, failRun, beforeRun, emitted, source, queries, tickSim,
             posted >>

\* cli_obd_loop.py:309
max_failures == 5

Programs == {"cli", "real"}

\* What os.path.exists, import obd, obd.OBD(...) and connection.status() meet:
\*   "missing"  /dev/rfcomm0 does not exist
\*   "noimport" import obd raises ImportError
\*   "raise"    obd.OBD(...) or status() raises
\*   "other"    status is neither CAR_CONNECTED nor ELM_CONNECTED
\*   "elm"      ELM_CONNECTED (adapter answers, ignition off)
\*   "car"      CAR_CONNECTED (ignition on)
Worlds == {"missing", "noimport", "raise", "other", "elm", "car"}

\* the worlds in which obd.OBD(...) returns a handle object
HandleWorlds == {"other", "elm", "car"}

----------------------------------------------------------------------------
(* connect_to_obd *)

\* The body of connect_to_obd inside its try block: the handle it would
\* return, or "exc" when obd.OBD(...) / status() raises.
ConnectAttempt(w) ==
    CASE w = "car"   -> "car"
      [] w = "elm"   -> "elm"
      [] w = "other" -> "none"
      [] w = "raise" -> "exc"
      [] OTHER       -> "none"

\* faulty variant: the device check and the ImportError guard only, no except clause
ConnectToObdUnguarded(w) ==
    IF w \in {"missing", "noimport"} THEN "none" ELSE ConnectAttempt(w)

\* connect_to_obd: early returns for a missing device and a missing library,
\* then the attempt under `except Exception: return None`.
ConnectToObd(w) ==
    IF w = "missing" THEN "none"
    ELSE IF w = "noimport" THEN "none"
    ELSE IF ConnectAttempt(w) = "exc" THEN "none"
    ELSE ConnectAttempt(w)

\* cli_obd_loop.connect_to_obd closes the handle it built when the status is
\* neither CAR_CONNECTED nor ELM_CONNECTED; main.connect_to_obd does not.
ConnectClosesRejected(p) == p = "cli"

\* main.connect_to_obd (main.py:330-337) returns None for a status that is
\* neither CAR_CONNECTED nor ELM_CONNECTED and drops the handle it built
\* without a close()
ConnectLeaks(p, w) == w = "other" /\ ~ConnectClosesRejected(p)

\* calls made on the handle obd.OBD(...) built: status(), and close() of a
\* rejected handle in cli_obd_loop.connect_to_obd
ConnectHandleCalls(p, w) ==
    IF w \notin HandleWorlds THEN 0
    ELSE IF w = "other" /\ ConnectClosesRejected(p) THEN 2
    ELSE 1

----------------------------------------------------------------------------
(* helpers of the loops *)

\* the last three events
Keep3(s) == IF Len(s) > 3 THEN SubSeq(s, Len(s) - 2, Len(s)) ELSE s

Logged(e) == Keep3(Append(log, e))

\* faulty variant: the counter survives a successful tick
AfterSuccessKeep(c) == c

\* cli_obd_loop.py:343
AfterSuccess(c) == 0

\* cli_obd_loop.py:347
AfterFailure(c) == c + 1

\* faulty variant: reconnect one failure early
ShouldReconnectEarly(c) == c >= max_failures - 1

\* cli_obd_loop.py:351
ShouldReconnect(c) == c >= max_failures

\* faulty variant: the reconnect leaves the counter where it was
AfterReconnectKeep(c) == c

\* cli_obd_loop.py:367
AfterReconnect(c) == 0

\* faulty variant: the old handle is never closed
HoldsHandleNever(conn) == FALSE

\* `if connection is not None` (cli_obd_loop.py:356, main.py:206)
HoldsHandle(conn) == conn # "none"

\* faulty variant: an exception of close() escapes
CloseEscapesUnguarded(raises) == raises

\* `try: connection.close() / except Exception: pass`: nothing escapes
CloseEscapes(raises) == FALSE

\* faulty variant: the simulated generator is used only when the library is missing
SnapshotSourceLive(conn) == "live"

\* read_obd_snapshot, cli_obd_loop.py:61-63: no handle, simulated snapshot
SnapshotSource(conn) == IF conn = "none" THEN "sim" ELSE "live"

\* the connection state of the specification
ConnState ==
    IF pc = "start" THEN "Disconnected"
    ELSE IF connection = "none" THEN "Simulated"
    ELSE IF closed THEN "Disconnected"
    ELSE IF connection = "elm" THEN "ElmOnly"
    ELSE "CarConnected"

----------------------------------------------------------------------------
(* The snapshot readers: cli_obd_loop.read_obd_snapshot, main.read_obd_pids *)
(* and data_manager._read_obd_live, called on a live handle.                *)

\* the largest raw magnitude a query returns
MaxRaw == 1

\* the readers that query a live handle
LiveReaders == {"snapshot", "pids", "live"}

\* the generators of simulated Readings: cli_obd_loop._generate_fake_snapshot
\* and main.generate_fake_reading
Generators == {"sim", "fake"}

Readers == LiveReaders \cup Generators

\* cli_obd_loop.py:114-119
SnapshotSignals == {"rpm", "speed", "coolant", "throttle", "load", "maf"}

\* main.py:361-364
PidSignals == {"rpm", "speed", "coolant", "throttle"}

\* data_manager.py:151-177
LiveSignals == {"rpm", "speed", "coolant", "throttle", "load", "timing"}

\* the number of connection.query calls of one read_obd_snapshot call and of
\* one read_obd_pids call
SnapshotQueries == Cardinality(SnapshotSignals)
PidQueries == Cardinality(PidSignals)

\* cli_obd_loop.py:192-200 and main.py:107-115: the fields of a simulated
\* Reading
SignalsOf(fn) ==
    CASE fn = "snapshot" -> SnapshotSignals
      [] fn = "pids"     -> PidSignals
      [] fn = "sim"      -> SnapshotSignals
      [] OTHER           -> LiveSignals

\* the kinds of response that carry a value
ValueKinds == {"val", "odd"}

\* What connection.query(command) meets: it raises ("exc"), returns None
\* ("nil"), returns a null response ("null"), returns a value of magnitude
\* mag in the unit of the signal ("val"), or returns a value of magnitude mag
\* in a unit that cannot be converted to the unit of the signal ("odd").
Outcomes ==
    { [kind |-> k, mag |-> 0] : k \in {"exc", "nil", "null"} }
        \cup { [kind |-> "val", mag |-> m] : m \in 0..MaxRaw }
        \cup { [kind |-> "odd", mag |-> m] : m \in 1..MaxRaw }

\* an absent field (None) and a present one
Absent == [present |-> FALSE, v |-> 0]
Val(n) == [present |-> TRUE, v |-> n]

\* response.value: a quantity of magnitude m whose conversion to the unit of
\* the signal succeeds (convertible) or raises; None
Quantity(m, c) == [present |-> TRUE, v |-> m, convertible |-> c]
NoValue == [present |-> FALSE, v |-> 0, convertible |-> FALSE]

\* the value of a response that carries one
ResponseValue(o) == Quantity(o.mag, o.kind = "val")

\* faulty variant: safe_query without its except clause
SafeQueryNoCatch(o) ==
    IF o.kind = "exc" THEN [esc |-> TRUE, raw |-> NoValue]
    ELSE IF o.kind \in ValueKinds THEN [esc |-> FALSE, raw |-> ResponseValue(o)]
    ELSE [esc |-> FALSE, raw |-> NoValue]

\* safe_query (cli_obd_loop.py:73-82, main.py:351-359): the value of the
\* response, or None when the query raised, returned None or a null
\* response; nothing escapes (esc).
SafeQuery(o) ==
    IF o.kind \in ValueKinds THEN [esc |-> FALSE, raw |-> ResponseValue(o)]
    ELSE [esc |-> FALSE, raw |-> NoValue]

\* the signals read with a target unit (cli_obd_loop.py:128-144,
\* main.py:386-394); rpm is read without one (line 124)
HasTargetUnit(sig) == sig # "rpm"

\* value.to(target_unit): the converted quantity, or that the call raised
ToUnit(value) ==
    IF value.convertible THEN [raised |-> FALSE, value |-> value]
    ELSE [raised |-> TRUE, value |-> NoValue]

\* get_magnitude (cli_obd_loop.py:85-111) and extract_magnitude
\* (main.py:366-381): None for None; the value converted to the target
\* unit, or the value itself when there is no target unit or the conversion
\* raised ("use original"); then its magnitude.
GetMagnitude(sig, value) ==
    IF ~value.present THEN Absent
    ELSE LET converted ==
                 IF HasTargetUnit(sig) /\ ~ToUnit(value).raised
                 THEN ToUnit(value).value ELSE value
         IN  Val(converted.v)

\* a / b rounded to the nearest integer, for a >= 0 and b > 0
RoundDiv(a, b) == (2 * a + b) \div (2 * b)

\* The normalisation of a raw magnitude (cli_obd_loop.py:123-145,
\* main.py:383-395, data_manager.py:153-177): rpm as an integer, speed in
\* tenths of mph (km/h * 0.621371, one decimal), coolant in tenths of a
\* degree F (c * 9 / 5 + 32, one decimal), throttle, load and timing in
\* tenths (one decimal), mass air flow in hundredths (two decimals).
Normalize(sig, raw) ==
    IF ~raw.present THEN Absent
    ELSE Val(CASE sig = "rpm"     -> raw.v
               [] sig = "speed"   -> RoundDiv(raw.v * 621371, 100000)
               [] sig = "coolant" -> raw.v * 18 + 320
               [] sig = "maf"     -> raw.v * 100
               [] OTHER           -> raw.v * 10)

\* a call that raised, and the value of rdOut before the call
Raised == [raised |-> TRUE, timestamp |-> FALSE, fields |-> << >>]
Pending == [raised |-> FALSE, timestamp |-> FALSE, fields |-> << >>]

\* faulty variant: the timestamp is set only when some sensor answered
ReadObdSnapshotNoStamp(q) ==
    [raised |-> FALSE,
     timestamp |-> \E s \in SnapshotSignals : q[s].kind \in ValueKinds,
     fields |-> [s \in SnapshotSignals |->
                   Normalize(s, GetMagnitude(s, SafeQuery(q[s]).raw))]]

\* read_obd_snapshot on a live handle (cli_obd_loop.py:113-158)
ReadObdSnapshot(q) ==
    LET r == [s \in SnapshotSignals |-> SafeQuery(q[s])]
    IN  IF \E s \in SnapshotSignals : r[s].esc THEN Raised
        ELSE [raised |-> FALSE, timestamp |-> TRUE,
              fields |-> [s \in SnapshotSignals |->
                            Normalize(s, GetMagnitude(s, r[s].raw))]]

\* read_obd_pids on a live handle (main.py:361-404)
ReadObdPids(q) ==
    LET r == [s \in PidSignals |-> SafeQuery(q[s])]
    IN  IF \E s \in PidSignals : r[s].esc THEN Raised
        ELSE [raised |-> FALSE, timestamp |-> TRUE,
              fields |-> [s \in PidSignals |->
                            Normalize(s, GetMagnitude(s, r[s].raw))]]

\* data_manager.py:30-37
LastObdInit ==
    [s \in LiveSignals |-> IF s \in {"load", "timing"} THEN Absent ELSE Val(0)]

\* faulty variant: the reading starts with every field absent
LiveDefaultAbsent(s, last) == Absent

\* data_manager.py:136-148: the reading starts from the last live values,
\* `or 0` for rpm, coolant, speed and throttle
LiveDefault(s, last) ==
    IF s \in {"load", "timing"} THEN last[s]
    ELSE IF last[s].present THEN last[s] ELSE Val(0)

\* data_manager.py:150-180: the queries run in one try/finally with no
\* except clause: a query that raises, or that returns None (is_null() of
\* None), ends the call with that exception.
LiveRaises(q) == \E s \in LiveSignals : q[s].kind \in {"exc", "nil"}

\* _read_obd_live on an injected, connected handle (data_manager.py:136-193)
ReadObdLive(q, last) ==
    IF LiveRaises(q) THEN Raised
    ELSE [raised |-> FALSE, timestamp |-> TRUE,
          fields |-> [s \in LiveSignals |->
                        IF q[s].kind \in ValueKinds
                        THEN Normalize(s, Val(q[s].mag))
                        ELSE LiveDefault(s, last)]]

\* data_manager.py:182-191: a call that returns stores its values
LastObdAfter(q, last) ==
    IF LiveRaises(q) THEN last ELSE ReadObdLive(q, last).fields

\* The sine of the phase of each field of a simulated Reading, sampled at
\* its minimum, its zero and its maximum.
SineSamples == { [kind |-> "sin", mag |-> m] : m \in -1..1 }

\* what a call of reader fn draws for each of its signals
InputsOf(fn) == IF fn \in Generators THEN SineSamples ELSE Outcomes

\* _generate_fake_snapshot (cli_obd_loop.py:165-202): rpm, speed, coolant,
\* throttle and load in tenths, mass air flow in hundredths
GenerateFakeSnapshot(q) ==
    [raised |-> FALSE, timestamp |-> TRUE,
     fields |-> [s \in SnapshotSignals |->
        Val(CASE s = "rpm"      -> 925 + 175 * q[s].mag
              [] s = "speed"    -> 225 + 225 * q[s].mag
              [] s = "coolant"  -> 1850 + 50 * q[s].mag
              [] s = "throttle" -> 125 + 125 * q[s].mag
              [] s = "load"     -> 150 + 100 * q[s].mag
              [] OTHER          -> 500 + 300 * q[s].mag)]]

\* generate_fake_reading (main.py:95-116): rpm as an integer, the other
\* fields in tenths
GenerateFakeReading(q) ==
    [raised |-> FALSE, timestamp |-> TRUE,
     fields |-> [s \in LiveSignals |->
        Val(CASE s = "rpm"      -> 750 + 350 * (1 + q[s].mag)
              [] s = "speed"    -> 50 + 200 * (1 + q[s].mag)
              [] s = "coolant"  -> 1830 + 40 * q[s].mag
              [] s = "throttle" -> 120 + 80 * (1 + q[s].mag)
              [] s = "load"     -> 350 + 250 * (1 + q[s].mag)
              [] OTHER          -> -50 + 120 * q[s].mag)]]

----------------------------------------------------------------------------
(* The state of the trip API of api_server *)

\* the latest instant of the clock
MaxClock == 1

\* the number of request threads
MaxThreads == 2

Threads == 1..MaxThreads

Times == 0..MaxClock

\* None, for trip_start_time and trip_end_time (api_server.py:98-99)
NoTime == -1

NoResult == [kind |-> "none", analytics |-> FALSE, duration |-> 0, samples |-> 0]

\* a result without analytics fields: a message, a warning or an error
Plain(k) == [kind |-> k, analytics |-> FALSE, duration |-> 0, samples |-> 0]

TripState == [active |-> trip_active, start |-> trip_start_time, end |-> trip_end_time]

\* the server has just started (api_server.py:97-99), no request is in flight
TripIdle ==
    /\ trip_active = FALSE
    /\ trip_start_time = NoTime
    /\ trip_end_time = NoTime
    /\ clock = 0
    /\ readings = {}
    /\ reqOp = [t \in Threads |-> "idle"]
    /\ reqPc = [t \in Threads |-> "idle"]
    /\ reqNow = [t \in Threads |-> NoTime]
    /\ reqRes = [t \in Threads |-> NoResult]
    /\ serial = TRUE
    /\ preTrip = [active |-> FALSE, start |-> NoTime, end |-> NoTime]
    /\ tripsEnded = FALSE

----------------------------------------------------------------------------
(* api_server: the analytics endpoints trip_summary, get_stats and         *)
(* get_vehicle_state over the rows of the readings table.  Magnitudes are  *)
(* integers: speed, coolant and throttle in tenths (the resolution the     *)
(* loops round to), maf in hundredths of a g/s, distance in hundredths of  *)
(* a mile, fuel in thousandths of a gallon, averages and mpg in tenths.    *)

\* the rows of the readings table in the drawn stores
MaxStored == 2

\* the latest instant of a drawn timestamp or trip bound
MaxInstant == 2

Instants == 0..MaxInstant

\* A stored timestamp is the string the client posted (ReadingIn.timestamp is
\* an unvalidated str): an ISO-8601 instant with its UTC offset ("utc"), one
\* without an offset ("naive"), or a string fromisoformat rejects ("bad").
Utc(t) == [kind |-> "utc", t |-> t]
NaiveTs(t) == [kind |-> "naive", t |-> t]
BadTs == [kind |-> "bad", t |-> 0]

\* a row as the CLI loop posts it while driving steadily
Steady ==
    [ts |-> Utc(1), rpm |-> Val(800), speed |-> Val(250), coolant |-> Val(1850),
     throttle |-> Val(125), maf |-> Val(500)]

\* a row as the CLI loop posts it when every query of the tick failed
Blank ==
    [ts |-> Utc(1), rpm |-> Absent, speed |-> Absent, coolant |-> Absent,
     throttle |-> Absent, maf |-> Absent]

\* the rows the drawn stores are made of: Blank, and Steady varied in its
\* timestamp, in its speed and maf, and in each other field
SampleReadings ==
    {Blank} \cup
    { [Steady EXCEPT !.ts = s] :
        s \in { Utc(t) : t \in Instants } \cup {NaiveTs(1), BadTs} }
    \cup { [Steady EXCEPT !.speed = v, !.maf = w] :
             v \in {Absent, Val(0), Val(250)},
             w \in {Absent, Val(0), Val(500), Val(2500)} }
    \cup { [Steady EXCEPT !.rpm = v] : v \in {Absent, Val(3000)} }
    \cup { [Steady EXCEPT !.coolant = v] :
             v \in {Absent, Val(1399), Val(1400), Val(2200), Val(2201)} }
    \cup { [Steady EXCEPT !.throttle = v] : v \in {Absent, Val(41)} }

Stores == UNION { [1..n -> SampleReadings] : n \in 0..MaxStored }

Windows == { [start |-> s, end |-> e] : s \in Instants, e \in Instants }

\* ten seconds at 1 Hz with constant speed_mph = 30 and maf_gps = 5
ScenarioStore ==
    [i \in 1..10 |-> [Steady EXCEPT !.ts = Utc(i - 1), !.speed = Val(300),
                                     !.maf = Val(500)]]

ScenarioWindow == [start |-> 0, end |-> 9]

\* the comparison trip_start_time <= reading_time raises TypeError when the
\* parsed timestamp has no offset; the except clause names ValueError and
\* AttributeError only
WindowRaises(store) == \E i \in 1..Len(store) : store[i].ts.kind = "naive"

\* the filter loop: rows that do not parse are skipped
TripWindow(store, start, end) ==
    SelectSeq(store, LAMBDA r : /\ r.ts.kind = "utc"
                                /\ start <= r.ts.t
                                /\ r.ts.t <= end)

\* [r.f for r in rows if r.f is not None]
Present(rows, f) == SelectSeq(rows, LAMBDA r : r[f].present)

RECURSIVE SumOf(_, _)
SumOf(rows, f) ==
    IF rows = << >> THEN 0 ELSE rows[1][f].v + SumOf(Tail(rows), f)

MaxOf(rows, f) ==
    CHOOSE m \in { rows[i][f].v : i \in 1..Len(rows) } :
        \A j \in 1..Len(rows) : rows[j][f].v <= m

MinOf(rows, f) ==
    CHOOSE m \in { rows[i][f].v : i \in 1..Len(rows) } :
        \A j \in 1..Len(rows) : m <= rows[j][f].v

\* faulty variant: an absent value counts as a zero sample
AverageZeroFill(rows, f, scale) ==
    IF rows = << >> THEN Absent
    ELSE Val(RoundDiv(scale * SumOf(Present(rows, f), f), Len(rows)))

\* round(sum(values) / len(values), 1) if values else None; scale is the
\* number of tenths in one unit of the field
Average(rows, f, scale) ==
    IF Present(rows, f) = << >> THEN Absent
    ELSE Val(RoundDiv(scale * SumOf(Present(rows, f), f), Len(Present(rows, f))))

\* round(max(values), 1) if values else None
Maximum(rows, f) ==
    IF Present(rows, f) = << >> THEN Absent ELSE Val(MaxOf(Present(rows, f), f))

\* round(min(values), 1) if values else None
Minimum(rows, f) ==
    IF Present(rows, f) = << >> THEN Absent ELSE Val(MinOf(Present(rows, f), f))

\* tenths of a mph, over one-second samples, in a hundredth of a mile
TenthsPerCentimile == 360

\* faulty variant: a row without speed ends the integration
DistanceStopsAtGap(rows) ==
    RoundDiv(SumOf(SubSeq(rows, 1, Len(Present(rows, "speed"))), "speed"),
             TenthsPerCentimile)

\* the sum of speed_mph * (1 / 3600) over the rows with a speed, rounded to
\* two decimals
Distance(rows) == RoundDiv(SumOf(Present(rows, "speed"), "speed"), TenthsPerCentimile)

\* hundredths of a gram of air in a gallon of fuel, by the thousand:
\* 14.7 * 0.74 * 3785.41 = 41177.69 g
AirPerGallon == 4117769

\* round(sum(maf_values) / AFR / gasoline_density / 3785.41, 3)
FuelGallons(rows) == RoundDiv(1000 * SumOf(Present(rows, "maf"), "maf"), AirPerGallon)

\* faulty variant: fuel alone decides
MpgFuelOnly(distance, fuel) ==
    IF fuel > 0 THEN Val(RoundDiv(100 * distance, fuel)) ELSE Absent

\* round(total_distance_miles / fuel_used_gallons, 1) when both are above zero
Mpg(distance, fuel) ==
    IF fuel > 0 /\ distance > 0 THEN Val(RoundDiv(100 * distance, fuel)) ELSE Absent

\* no call has returned
NoAnswer == [kind |-> "none"]

\* the handler raised: the server answers 500
Failed == [kind |-> "raised"]

\* {"error": ...}
ErrorAnswer == [kind |-> "error"]

\* faulty variant: a trip without MAF samples burns no fuel
FuelZeroFill(rows) ==
    [fuel_used_gallons |-> Val(FuelGallons(rows)),
     mpg_estimate |-> Absent,
     note |-> FALSE]

\* the fuel block of trip_summary
Fuel(rows) ==
    IF Present(rows, "maf") # << >>
    THEN [fuel_used_gallons |-> Val(FuelGallons(rows)),
          mpg_estimate |-> Mpg(Distance(rows), FuelGallons(rows)),
          note |-> FALSE]
    ELSE [fuel_used_gallons |-> Absent, mpg_estimate |-> Absent, note |-> TRUE]

\* faulty variant: the end bound is exclusive
TripWindowHalfOpen(store, start, end) ==
    SelectSeq(store, LAMBDA r : /\ r.ts.kind = "utc"
                                /\ start <= r.ts.t
                                /\ r.ts.t < end)

\* trip_summary once both trip bounds are set
TripSummary(store, start, end) ==
    IF WindowRaises(store) THEN Failed
    ELSE LET rows == TripWindow(store, start, end) IN
         IF rows = << >> THEN ErrorAnswer
         ELSE [kind |-> "summary",
               used |-> rows,
               total_samples |-> Len(rows),
               total_distance_miles |-> Distance(rows),
               average_speed_mph |-> Average(rows, "speed", 1),
               max_speed_mph |-> Maximum(rows, "speed"),
               max_rpm |-> Maximum(rows, "rpm"),
               max_coolant_temp_f |-> Maximum(rows, "coolant"),
               average_throttle_pct |-> Average(rows, "throttle", 1),
               fuel_used_gallons |-> Fuel(rows).fuel_used_gallons,
               mpg_estimate |-> Fuel(rows).mpg_estimate,
               note |-> Fuel(rows).note]

\* the most recent limit rows
Recent(store, limit) ==
    SubSeq(store, IF Len(store) > limit THEN Len(store) - limit + 1 ELSE 1, Len(store))

\* get_stats
GetStats(store, limit) ==
    LET rows == Recent(store, limit) IN
    IF rows = << >> THEN ErrorAnswer
    ELSE [kind |-> "stats",
          used |-> rows,
          readings_analyzed |-> Len(rows),
          average_rpm |-> Average(rows, "rpm", 10),
          average_speed_mph |-> Average(rows, "speed", 1),
          max_coolant_temp_f |-> Maximum(rows, "coolant"),
          min_coolant_temp_f |-> Minimum(rows, "coolant"),
          average_throttle_pct |-> Average(rows, "throttle", 1)]

\* faulty variant: 140 is still cool
EngineTempStatusStrict(coolant) ==
    IF ~coolant.present THEN "unknown"
    ELSE IF coolant.v <= 1400 THEN "cool"
    ELSE IF coolant.v <= 2200 THEN "normal"
    ELSE "hot"

\* the temperature band of get_vehicle_state
EngineTempStatus(coolant) ==
    IF ~coolant.present THEN "unknown"
    ELSE IF coolant.v < 1400 THEN "cool"
    ELSE IF coolant.v <= 2200 THEN "normal"
    ELSE "hot"

\* the throttle band of get_vehicle_state
ThrottleActivity(throttle) ==
    IF ~throttle.present THEN "unknown"
    ELSE IF throttle.v < 50 THEN "idle"
    ELSE IF throttle.v <= 300 THEN "light"
    ELSE "high"

\* get_vehicle_state
GetVehicleState(store) ==
    IF store = << >> THEN ErrorAnswer
    ELSE LET latest == store[Len(store)] IN
         [kind |-> "state",
          latest |-> latest,
          is_moving |-> latest.speed.present /\ latest.speed.v > 10,
          engine_temp_status |-> EngineTempStatus(latest.coolant),
          throttle_activity |-> ThrottleActivity(latest.throttle)]

\* no analytics call is under way
AnIdle ==
    /\ anOp = "none"
    /\ anStore = << >>
    /\ anWindow = [start |-> 0, end |-> 0]
    /\ anLimit = 0
    /\ anDone = FALSE
    /\ anOut = NoAnswer

\* generate_fake_reading has not been called
GenIdle == genCalls = << >>

\* no logger and no dashboard run
CsvIdle ==
    /\ csvFile = << >>
    /\ csvLogged = << >>
    /\ rdrPc = "idle"
    /\ rdrRows = << >>

\* None, for after_id
NoAfter == 0

\* DashboardApp.__init__ has run on a fresh root
DashIdle ==
    /\ data_source = "csv"
    /\ frame_count = 0
    /\ simulated_mode = FALSE
    /\ sim_label = FALSE
    /\ after_id = NoAfter
    /\ obd_connection = "none"
    /\ pending = {}
    /\ nextId = 1
    /\ started = FALSE
    /\ destroyed = FALSE
    /\ fetchLog = << >>

\* no _read_obd_live call has been made
LiveIdle ==
    /\ lvCalls = 0
    /\ lvInjected = FALSE
    /\ lvPath = "none"
    /\ lvOpened = 0
    /\ lvCloses = 0
    /\ lvDone = 0
    /\ lvPrev = << >>

\* run_fake_cycles is not called
FakeIdle ==
    /\ shutdown_requested = FALSE
    /\ fake_pc = "done"
    /\ fake_count = 0
    /\ fake_index = 0
    /\ fake_written = 0
    /\ fake_completed = FALSE
    /\ fake_connects = 0

\* main.py:407: max_cycles = None
NoLimit == -1

\* run_real_mode runs without a cycle limit
RunIdle ==
    /\ max_cycles = NoLimit
    /\ cycles_completed = 0
    /\ polls = 0
    /\ real_written = 0
    /\ limitExit = FALSE

AuxIdle == DashIdle /\ LiveIdle /\ FakeIdle /\ RunIdle

DataIdle == AnIdle /\ GenIdle /\ CsvIdle /\ AuxIdle

----------------------------------------------------------------------------
\* no reader call is under way
ReadIdle ==
    /\ rdFn = "none"
    /\ rdQ = << >>
    /\ rdDone = FALSE
    /\ rdOut = Pending
    /\ lastObd = LastObdInit

\* a loop is about to make its first connect
LoopStart ==
    /\ pc = "start"
    /\ connection = "none"
    /\ closed = FALSE
    /\ consecutive_failures = 0
    /\ world \in Worlds
    /\ lastTick = "none"
    /\ failRun = 0
    /\ beforeRun = 0
    /\ emitted = 0
    /\ source = "none"
    /\ queries = 0
    /\ tickSim = FALSE
    /\ posted = "none"
    /\ hwCalls = 0
    /\ closeSteps = 0
    /\ closeCalls = 0
    /\ connects = 0
    /\ log = << >>
    /\ prevConn = "none"
    /\ lastEnv = "none"
    /\ lastClose = "none"
    /\ leaked = FALSE

Init ==
    /\ ReadIdle
    /\ TripIdle
    /\ DataIdle
    /\ program \in Programs
    /\ LoopStart

\* the adapter is plugged or unplugged, the ignition turned on or off
EnvChange ==
    /\ pc # "done"
    /\ pc # "crashed"
    /\ \E w \in Worlds : w # world /\ world' = w
    /\ UNCHANGED << dataVars, tripVars, readVars, program, leaked, pc, connection, closed, consecutive_failures,
                    tickObs,
                    hwCalls, closeSteps, closeCalls, connects, log, prevConn,
                    lastEnv, lastClose >>

\* The effect of one connect_to_obd call on the handle and the observations.
DoConnect(p) ==
    /\ prevConn' = connection
    /\ lastEnv' = world
    /\ connects' = connects + 1
    /\ hwCalls' = hwCalls + ConnectHandleCalls(p, world)
    /\ log' = Logged("connect")
    /\ leaked' = (leaked \/ ConnectLeaks(p, world)
                          \/ (connection # "none" /\ ~closed))
    /\ IF ConnectToObd(world) = "exc"
       THEN /\ connection' = connection
            /\ closed' = closed
       ELSE /\ connection' = ConnectToObd(world)
            /\ closed' = FALSE

\* The guarded close of the held handle (cli_obd_loop.py:356-360,
\* main.py:205-209): close() is called when a handle is held; what close()
\* raises is swallowed.
DoClose(raises) ==
    /\ closeSteps' = closeSteps + 1
    /\ log' = Logged("close")
    /\ IF HoldsHandle(connection)
       THEN /\ closeCalls' = closeCalls + 1
            /\ hwCalls' = hwCalls + 1
            /\ closed' = TRUE
            /\ lastClose' = IF raises THEN "raised"
                            ELSE IF closed THEN "again" ELSE "ok"
       ELSE /\ closeCalls' = closeCalls
            /\ hwCalls' = hwCalls
            /\ closed' = closed
            /\ lastClose' = "nohandle"

----------------------------------------------------------------------------
(* cli_obd_loop.main *)

\* line 292: the first connect
CliStart ==
    /\ program = "cli"
    /\ pc = "start"
    /\ DoConnect("cli")
    /\ pc' = IF ConnectToObd(world) = "exc" THEN "crashed" ELSE "tick"
    /\ UNCHANGED << dataVars, tripVars, readVars, program, consecutive_failures, world, tickObs, closeSteps, closeCalls,
                    lastClose >>

\* faulty variant: a failed POST reaches the outer except clause
PostRaisesThrough(postFails) == postFails

\* lines 333-340: what leaves the inner try around requests.post and
\* raise_for_status when the POST fails; both except clauses warn and go on
PostRaises(postFails) == FALSE

\* lines 313-351: one pass of the try block and of the counting in its except
\* clause.  readRaises: read_obd_snapshot raises (only a live read can);
\* printRaises: print or flush raises; postFails: the POST raises or answers
\* with an error status (only a tick that gets as far as the POST can).
CliTick ==
    /\ program = "cli"
    /\ pc = "tick"
    /\ \E readRaises \in BOOLEAN, printRaises \in BOOLEAN, postFails \in BOOLEAN :
         LET src     == SnapshotSource(connection)
             reached == ~((readRaises /\ src = "live") \/ printRaises)
             raised  == ~reached \/ PostRaises(postFails)
             base    == IF connects > 0 THEN 0 ELSE failRun
         IN  /\ (readRaises => src = "live")
             /\ (postFails => reached)
             /\ posted' = IF ~reached THEN "none"
                          ELSE IF postFails THEN "failed" ELSE "ok"
             /\ source' = src
             /\ queries' = IF src = "live" THEN SnapshotQueries ELSE 0
             /\ hwCalls' = IF src = "live" THEN SnapshotQueries ELSE 0
             /\ tickSim' = (connection = "none")
             /\ emitted' = IF raised THEN 0 ELSE 1
             /\ lastTick' = IF raised THEN "fail" ELSE "ok"
             /\ failRun' = IF raised THEN base + 1 ELSE 0
             /\ beforeRun' = base
             /\ consecutive_failures' =
                    IF raised THEN AfterFailure(consecutive_failures)
                    ELSE AfterSuccess(consecutive_failures)
             /\ pc' = IF raised /\ ShouldReconnect(AfterFailure(consecutive_failures))
                      THEN "close" ELSE "sleep"
    /\ closeSteps' = 0
    /\ closeCalls' = 0
    /\ connects' = 0
    /\ UNCHANGED << dataVars, tripVars, readVars, program, leaked, connection, closed, world, log, prevConn,
                    lastEnv, lastClose >>

\* lines 355-360: close the old connection
CliClose ==
    /\ program = "cli"
    /\ pc = "close"
    /\ \E raises \in BOOLEAN :
         /\ (raises => HoldsHandle(connection))
         /\ DoClose(raises)
         /\ pc' = IF HoldsHandle(connection) /\ CloseEscapes(raises)
                  THEN "crashed" ELSE "backoff"
    /\ UNCHANGED << dataVars, tripVars, readVars, program, leaked, connection, consecutive_failures, world, tickObs, connects,
                    prevConn, lastEnv >>

\* faulty variant: the reconnect goes from the close straight to the connect
CliNoBackoff ==
    /\ program = "cli"
    /\ pc = "backoff"
    /\ pc' = "connect"
    /\ UNCHANGED << dataVars, tripVars, readVars, program, leaked, connection, closed, consecutive_failures,
                    world, tickObs, hwCalls, closeSteps, closeCalls, connects,
                    log, prevConn, lastEnv, lastClose >>

\* line 363: time.sleep(2)
CliBackoff ==
    /\ program = "cli"
    /\ pc = "backoff"
    /\ pc' = "connect"
    /\ log' = Logged("wait")
    /\ UNCHANGED << dataVars, tripVars, readVars, program, leaked, connection, closed, consecutive_failures, world,
                    tickObs,
                    hwCalls, closeSteps, closeCalls, connects, prevConn,
                    lastEnv, lastClose >>

\* lines 366-367: reconnect and reset the counter
CliReconnect ==
    /\ program = "cli"
    /\ pc = "connect"
    /\ DoConnect("cli")
    /\ IF ConnectToObd(world) = "exc"
       THEN /\ pc' = "crashed"
            /\ consecutive_failures' = consecutive_failures
       ELSE /\ pc' = "sleep"
            /\ consecutive_failures' = AfterReconnect(consecutive_failures)
    /\ UNCHANGED << dataVars, tripVars, readVars, program, world, tickObs, closeSteps, closeCalls, lastClose >>

\* line 370: time.sleep(1)
CliSleep ==
    /\ program = "cli"
    /\ pc = "sleep"
    /\ pc' = "tick"
    /\ UNCHANGED << dataVars, tripVars, readVars, program, leaked, connection, closed, consecutive_failures, world,
                    tickObs,
                    hwCalls, closeSteps, closeCalls, connects, log, prevConn,
                    lastEnv, lastClose >>

\* lines 372-384: KeyboardInterrupt inside the loop: close the handle and stop.
\* midConnect: the interrupt arrives inside connect_to_obd after obd.OBD(...)
\* built a handle; `except Exception` does not catch it and the new handle
\* is dropped.
CliInterrupt ==
    /\ program = "cli"
    /\ pc \in {"tick", "close", "backoff", "connect", "sleep"}
    /\ \E raises \in BOOLEAN, midConnect \in BOOLEAN :
         /\ (raises => HoldsHandle(connection))
         /\ (midConnect => pc = "connect" /\ world \in HandleWorlds)
         /\ leaked' = (leaked \/ midConnect)
         /\ DoClose(raises)
         /\ pc' = IF HoldsHandle(connection) /\ CloseEscapes(raises)
                  THEN "crashed" ELSE "done"
    /\ UNCHANGED << dataVars, tripVars, readVars, program, connection, consecutive_failures, world, tickObs, connects,
                    prevConn, lastEnv >>

----------------------------------------------------------------------------
(* main.run_real_mode and main.reconnect_obd *)

\* main.py:420-424: the first connect; without a handle real mode is aborted
RealStart ==
    /\ program = "real"
    /\ pc = "start"
    /\ DoConnect("real")
    /\ pc' = IF ConnectToObd(world) = "exc" THEN "crashed"
             ELSE IF ConnectToObd(world) = "none" THEN "done"
             ELSE "tick"
    /\ UNCHANGED << dataVars, tripVars, readVars, program, consecutive_failures, world, tickObs, closeSteps, closeCalls,
                    lastClose >>

\* the largest cycle limit of a run, and the largest number of polls of a run
\* under a limit
MaxCycles == 2
MaxPolls == 4

\* main.py:436-437: the limit check at the top of the loop
LimitReached(limit, completed) == limit # NoLimit /\ completed >= limit

\* faulty variant: a failed poll counts as a cycle
CyclesAfterAnyPoll(completed, raised) == completed + 1

\* main.py:456 and 484: a failed poll goes on to the next pass of the loop
\* without counting; a poll that was read and written counts
CyclesAfter(completed, raised) == IF raised THEN completed ELSE completed + 1

\* main.py:435-444, 459-460 and 484: read_obd_pids raises ValueError without
\* a handle, may raise on a live one (readRaises); a Reading that was read is
\* written to the CSV logger and counted.  A failed read goes to
\* reconnect_obd.  The three counters are kept only under a limit.
RealTick ==
    /\ program = "real"
    /\ pc = "tick"
    /\ ~LimitReached(max_cycles, cycles_completed)
    /\ (max_cycles # NoLimit => polls < MaxPolls)
    /\ \E readRaises \in BOOLEAN :
         LET raised == readRaises \/ connection = "none"
             base   == IF connects > 0 THEN 0 ELSE failRun
         IN  /\ source' = IF raised THEN "none" ELSE "live"
             /\ queries' = IF connection = "none" THEN 0 ELSE PidQueries
             /\ hwCalls' = IF connection = "none" THEN 0 ELSE PidQueries
             /\ tickSim' = (connection = "none")
             /\ emitted' = IF raised THEN 0 ELSE 1
             /\ lastTick' = IF raised THEN "fail" ELSE "ok"
             /\ failRun' = IF raised THEN base + 1 ELSE 0
             /\ beforeRun' = base
             /\ posted' = "none"
             /\ pc' = IF raised THEN "close" ELSE "sleep"
             /\ IF max_cycles = NoLimit
                THEN UNCHANGED << cycles_completed, polls, real_written >>
                ELSE /\ polls' = polls + 1
                     /\ real_written' = IF raised THEN real_written
                                        ELSE real_written + 1
                     /\ cycles_completed' = CyclesAfter(cycles_completed, raised)
    /\ closeSteps' = 0
    /\ closeCalls' = 0
    /\ connects' = 0
    /\ UNCHANGED << anVars, genCalls, csvVars, dashVars, liveVars, fakeVars,
                    max_cycles, limitExit, tripVars, readVars, program, leaked,
                    connection, closed, consecutive_failures, world,
                    log, prevConn, lastEnv, lastClose >>

\* reconnect_obd, main.py:205-209: close the old handle, swallow its error
RealClose ==
    /\ program = "real"
    /\ pc = "close"
    /\ \E raises \in BOOLEAN :
         /\ (raises => HoldsHandle(connection))
         /\ DoClose(raises)
         /\ pc' = IF HoldsHandle(connection) /\ CloseEscapes(raises)
                  THEN "crashed" ELSE "backoff"
    /\ UNCHANGED << dataVars, tripVars, readVars, program, leaked, connection, consecutive_failures, world, tickObs, connects,
                    prevConn, lastEnv >>

\* reconnect_obd, main.py:211-212: time.sleep(2)
RealBackoff ==
    /\ program = "real"
    /\ pc = "backoff"
    /\ pc' = "connect"
    /\ log' = Logged("wait")
    /\ UNCHANGED << dataVars, tripVars, readVars, program, leaked, connection, closed, consecutive_failures, world,
                    tickObs,
                    hwCalls, closeSteps, closeCalls, connects, prevConn,
                    lastEnv, lastClose >>

\* reconnect_obd, main.py:213, and run_real_mode, main.py:445-446
RealReconnect ==
    /\ program = "real"
    /\ pc = "connect"
    /\ DoConnect("real")
    /\ pc' = IF ConnectToObd(world) = "exc" THEN "crashed"
             ELSE IF ConnectToObd(world) = "none" THEN "retrywait"
             ELSE "sleep"
    /\ UNCHANGED << dataVars, tripVars, readVars, program, consecutive_failures, world, tickObs, closeSteps, closeCalls,
                    lastClose >>

\* main.py:447-451: the reconnect failed, time.sleep(2)
RealRetryWait ==
    /\ program = "real"
    /\ pc = "retrywait"
    /\ pc' = "sleep"
    /\ log' = Logged("wait")
    /\ UNCHANGED << dataVars, tripVars, readVars, program, leaked, connection, closed, consecutive_failures, world,
                    tickObs,
                    hwCalls, closeSteps, closeCalls, connects, prevConn,
                    lastEnv, lastClose >>

\* main.py:453-457 and 489-492: sleep the rest of the second
RealSleep ==
    /\ program = "real"
    /\ pc = "sleep"
    /\ pc' = "tick"
    /\ UNCHANGED << dataVars, tripVars, readVars, program, leaked, connection, closed, consecutive_failures, world,
                    tickObs,
                    hwCalls, closeSteps, closeCalls, connects, log, prevConn,
                    lastEnv, lastClose >>

\* main.py:190-199 and 493-497: SIGINT raises KeyboardInterrupt in the loop;
\* the finally clause calls connection.close() with no None check and
\* swallows what it raises (the AttributeError of None.close() included).
RealInterrupt ==
    /\ program = "real"
    /\ pc \in {"tick", "close", "backoff", "connect", "retrywait", "sleep"}
    /\ \E raises \in BOOLEAN, midConnect \in BOOLEAN :
         /\ (raises => HoldsHandle(connection))
         /\ (midConnect => pc = "connect" /\ world \in HandleWorlds)
         /\ leaked' = (leaked \/ midConnect)
         /\ DoClose(raises)
         /\ pc' = IF CloseEscapes(raises \/ ~HoldsHandle(connection))
                  THEN "crashed" ELSE "done"
    /\ UNCHANGED << dataVars, tripVars, readVars, program, connection, consecutive_failures, world, tickObs, connects,
                    prevConn, lastEnv >>

\* main.py:436-437 and 493-497: the limit is reached; the break leaves the
\* loop and the finally clause calls connection.close(), swallowing what it
\* raises
RealLimit ==
    /\ program = "real"
    /\ pc = "tick"
    /\ LimitReached(max_cycles, cycles_completed)
    /\ \E raises \in BOOLEAN :
         /\ (raises => HoldsHandle(connection))
         /\ DoClose(raises)
         /\ pc' = IF CloseEscapes(raises \/ ~HoldsHandle(connection))
                  THEN "crashed" ELSE "done"
    /\ limitExit' = TRUE
    /\ UNCHANGED << anVars, genCalls, csvVars, dashVars, liveVars, fakeVars,
                    max_cycles, cycles_completed, polls, real_written,
                    tripVars, readVars, program, leaked, connection,
                    consecutive_failures, world, tickObs, connects, prevConn,
                    lastEnv >>

----------------------------------------------------------------------------
\* the steps of the loops (everything but the environment and the interrupt)
LoopStep ==
    \/ CliStart
    \/ CliTick
    \/ CliClose
    \/ CliBackoff
    \/ CliReconnect
    \/ CliSleep
    \/ RealStart
    \/ RealTick
    \/ RealClose
    \/ RealBackoff
    \/ RealReconnect
    \/ RealRetryWait
    \/ RealSleep

Next ==
    \/ EnvChange
    \/ LoopStep
    \/ CliInterrupt
    \/ RealInterrupt

Spec == Init /\ [][Next]_vars

\* The loops keep running (while True / while not shutdown_requested()):
\* a loop step that is possible is eventually taken.  Nothing is assumed of
\* the environment or of the interrupt.
FairSpec == Spec /\ WF_vars(LoopStep)

----------------------------------------------------------------------------
(* main.run_real_mode called with a cycle limit (--real-run COUNT).  A     *)
(* COUNT of 0 or less returns before the first connect (main.py:415-418).  *)

RunInit ==
    /\ ReadIdle
    /\ TripIdle
    /\ AnIdle
    /\ GenIdle
    /\ CsvIdle
    /\ DashIdle
    /\ LiveIdle
    /\ FakeIdle
    /\ program = "real"
    /\ LoopStart
    /\ max_cycles \in 1..MaxCycles
    /\ cycles_completed = 0
    /\ polls = 0
    /\ real_written = 0
    /\ limitExit = FALSE

RunNext ==
    \/ EnvChange
    \/ RealStart
    \/ RealTick
    \/ RealClose
    \/ RealBackoff
    \/ RealReconnect
    \/ RealRetryWait
    \/ RealSleep
    \/ RealLimit
    \/ RealInterrupt

RunSpec == RunInit /\ [][RunNext]_vars

----------------------------------------------------------------------------
(* One call of a snapshot reader, its query outcomes drawn at the start *)

\* no loop runs
LoopIdle ==
    /\ program = "none"
    /\ pc = "done"
    /\ connection = "car"
    /\ closed = FALSE
    /\ consecutive_failures = 0
    /\ world = "car"
    /\ lastTick = "none"
    /\ failRun = 0
    /\ beforeRun = 0
    /\ emitted = 0
    /\ source = "none"
    /\ queries = 0
    /\ tickSim = FALSE
    /\ posted = "none"
    /\ hwCalls = 0
    /\ closeSteps = 0
    /\ closeCalls = 0
    /\ connects = 0
    /\ log = << >>
    /\ prevConn = "none"
    /\ lastEnv = "none"
    /\ lastClose = "none"
    /\ leaked = FALSE

ReadInit ==
    /\ LoopIdle
    /\ TripIdle
    /\ DataIdle
    /\ rdFn \in Readers
    /\ rdQ \in [SignalsOf(rdFn) -> InputsOf(rdFn)]
    /\ rdDone = FALSE
    /\ rdOut = Pending
    /\ lastObd = LastObdInit

CallSnapshot ==
    /\ rdFn = "snapshot"
    /\ ~rdDone
    /\ rdDone' = TRUE
    /\ rdOut' = ReadObdSnapshot(rdQ)
    /\ UNCHANGED << dataVars, tripVars, loopVars, rdFn, rdQ, lastObd >>

CallPids ==
    /\ rdFn = "pids"
    /\ ~rdDone
    /\ rdDone' = TRUE
    /\ rdOut' = ReadObdPids(rdQ)
    /\ UNCHANGED << dataVars, tripVars, loopVars, rdFn, rdQ, lastObd >>

CallLive ==
    /\ rdFn = "live"
    /\ ~rdDone
    /\ rdDone' = TRUE
    /\ rdOut' = ReadObdLive(rdQ, lastObd)
    /\ lastObd' = LastObdAfter(rdQ, lastObd)
    /\ UNCHANGED << dataVars, tripVars, loopVars, rdFn, rdQ >>

CallFakeSnapshot ==
    /\ rdFn = "sim"
    /\ ~rdDone
    /\ rdDone' = TRUE
    /\ rdOut' = GenerateFakeSnapshot(rdQ)
    /\ UNCHANGED << dataVars, tripVars, loopVars, rdFn, rdQ, lastObd >>

CallFakeReading ==
    /\ rdFn = "fake"
    /\ ~rdDone
    /\ rdDone' = TRUE
    /\ rdOut' = GenerateFakeReading(rdQ)
    /\ UNCHANGED << dataVars, tripVars, loopVars, rdFn, rdQ, lastObd >>

ReadNext ==
    \/ CallSnapshot
    \/ CallPids
    \/ CallLive
    \/ CallFakeSnapshot
    \/ CallFakeReading

ReadSpec == ReadInit /\ [][ReadNext]_vars

----------------------------------------------------------------------------
(* api_server: trip_start, trip_end, trip_summary and create_reading.  The *)
(* handlers are plain functions, run on the worker threads of the server:  *)
(* the statements of two requests interleave.                              *)

\* thread t takes a request for handler op
Begin(t, op) ==
    /\ reqOp[t] = "idle"
    /\ reqOp' = [reqOp EXCEPT ![t] = op]
    /\ serial' = (serial /\ \A u \in Threads : reqOp[u] = "idle")
    /\ preTrip' = TripState

\* thread t goes to position p of its handler
Goto(t, p) == reqPc' = [reqPc EXCEPT ![t] = p]

\* thread t has its response r ready
Respond(t, r) ==
    /\ reqPc' = [reqPc EXCEPT ![t] = "done"]
    /\ reqRes' = [reqRes EXCEPT ![t] = r]

\* trip_start, api_server.py:429: trip_active = True
TripStartActivate(t) ==
    /\ Begin(t, "start")
    /\ trip_active' = TRUE
    /\ Goto(t, "s_now")
    /\ UNCHANGED << dataVars, loopVars, readVars, tripsEnded, trip_start_time, trip_end_time, clock,
                    readings, reqNow, reqRes >>

\* line 432, right-hand side: datetime.now(timezone.utc)
TripStartReadClock(t) ==
    /\ reqPc[t] = "s_now"
    /\ reqNow' = [reqNow EXCEPT ![t] = clock]
    /\ Goto(t, "s_store")
    /\ UNCHANGED << dataVars, loopVars, readVars, tripsEnded, trip_active, trip_start_time,
                    trip_end_time, clock, readings, reqOp, reqRes, serial, preTrip >>

\* faulty variant: the start time of a trip in progress is kept
TripStartStoreOnce(t) ==
    /\ reqPc[t] = "s_store"
    /\ trip_start_time' = IF preTrip.active THEN trip_start_time ELSE reqNow[t]
    /\ Goto(t, "s_reset")
    /\ UNCHANGED << dataVars, loopVars, readVars, tripsEnded, trip_active, trip_end_time, clock,
                    readings, reqOp, reqNow, reqRes, serial, preTrip >>

\* line 432: trip_start_time = ...
TripStartStore(t) ==
    /\ reqPc[t] = "s_store"
    /\ trip_start_time' = reqNow[t]
    /\ Goto(t, "s_reset")
    /\ UNCHANGED << dataVars, loopVars, readVars, tripsEnded, trip_active, trip_end_time, clock,
                    readings, reqOp, reqNow, reqRes, serial, preTrip >>

\* faulty variant: the end time of the previous trip is kept
TripStartKeepsEnd(t) ==
    /\ reqPc[t] = "s_reset"
    /\ Respond(t, Plain("started"))
    /\ UNCHANGED << dataVars, loopVars, readVars, tripsEnded, trip_active, trip_start_time,
                    trip_end_time, clock, readings, reqOp, reqNow, serial, preTrip >>

\* lines 435-441: trip_end_time = None, and the response
TripStartResetEnd(t) ==
    /\ reqPc[t] = "s_reset"
    /\ trip_end_time' = NoTime
    /\ Respond(t, Plain("started"))
    /\ UNCHANGED << dataVars, loopVars, readVars, tripsEnded, trip_active, trip_start_time, clock,
                    readings, reqOp, reqNow, serial, preTrip >>

\* faulty variant: trip_end without the trip_active check
TripEndNoCheck(t) ==
    /\ Begin(t, "end")
    /\ Goto(t, "e_clear")
    /\ UNCHANGED << dataVars, loopVars, readVars, tripsEnded, trip_active, trip_start_time,
                    trip_end_time, clock, readings, reqNow, reqRes >>

\* trip_end, lines 460-464: without an active trip, a warning and nothing else
TripEndCheck(t) ==
    /\ Begin(t, "end")
    /\ IF ~trip_active
       THEN Respond(t, Plain("warning"))
       ELSE Goto(t, "e_clear") /\ reqRes' = reqRes
    /\ UNCHANGED << dataVars, loopVars, readVars, tripsEnded, trip_active, trip_start_time,
                    trip_end_time, clock, readings, reqNow >>

\* line 467: trip_active = False
TripEndDeactivate(t) ==
    /\ reqPc[t] = "e_clear"
    /\ trip_active' = FALSE
    /\ Goto(t, "e_now")
    /\ UNCHANGED << dataVars, loopVars, readVars, tripsEnded, trip_start_time, trip_end_time, clock,
                    readings, reqOp, reqNow, reqRes, serial, preTrip >>

\* line 470, right-hand side: datetime.now(timezone.utc)
TripEndReadClock(t) ==
    /\ reqPc[t] = "e_now"
    /\ reqNow' = [reqNow EXCEPT ![t] = clock]
    /\ Goto(t, "e_store")
    /\ UNCHANGED << dataVars, loopVars, readVars, tripsEnded, trip_active, trip_start_time,
                    trip_end_time, clock, readings, reqOp, reqRes, serial, preTrip >>

\* lines 470-476: trip_end_time = ..., and the response
TripEndStore(t) ==
    /\ reqPc[t] = "e_store"
    /\ trip_end_time' = reqNow[t]
    /\ tripsEnded' = TRUE
    /\ Respond(t, Plain("ended"))
    /\ UNCHANGED << dataVars, loopVars, readVars, trip_active, trip_start_time, clock,
                    readings, reqOp, reqNow, serial, preTrip >>

\* trip_summary, lines 511-512: no trip has been recorded yet
SummaryCheckStart(t) ==
    /\ Begin(t, "summary")
    /\ IF trip_start_time = NoTime
       THEN Respond(t, Plain("no_trip"))
       ELSE Goto(t, "q_end") /\ reqRes' = reqRes
    /\ UNCHANGED << dataVars, loopVars, readVars, tripsEnded, trip_active, trip_start_time,
                    trip_end_time, clock, readings, reqNow >>

\* lines 514-515: the trip is still active
SummaryCheckEnd(t) ==
    /\ reqPc[t] = "q_end"
    /\ IF trip_end_time = NoTime
       THEN Respond(t, Plain("active"))
       ELSE Goto(t, "q_compute") /\ reqRes' = reqRes
    /\ UNCHANGED << dataVars, loopVars, readVars, tripsEnded, trip_active, trip_start_time,
                    trip_end_time, clock, readings, reqOp, reqNow, serial, preTrip >>

\* lines 526-533: the stored Readings of the trip window, bounds included
TripReadings(start, end) == { r \in readings : start <= r /\ r <= end }

\* faulty variant: an empty window gives a summary of zeros
SummarizeZero(start, end) ==
    IF start = NoTime \/ end = NoTime THEN Plain("raised")
    ELSE [kind |-> "summary", analytics |-> TRUE, duration |-> end - start,
          samples |-> Cardinality(TripReadings(start, end))]

\* lines 519-549 and 629-634: the window filter, the "no readings" error,
\* the duration and the summary.  A time that has become None since the
\* checks makes the comparison or isoformat() raise.
Summarize(start, end) ==
    IF start = NoTime \/ end = NoTime THEN Plain("raised")
    ELSE IF TripReadings(start, end) = {} THEN Plain("no_data")
    ELSE [kind |-> "summary", analytics |-> TRUE, duration |-> end - start,
          samples |-> Cardinality(TripReadings(start, end))]

SummaryCompute(t) ==
    /\ reqPc[t] = "q_compute"
    /\ Respond(t, Summarize(trip_start_time, trip_end_time))
    /\ UNCHANGED << dataVars, loopVars, readVars, tripsEnded, trip_active, trip_start_time,
                    trip_end_time, clock, readings, reqOp, reqNow, serial, preTrip >>

\* the response of thread t is sent
Return(t) ==
    /\ reqPc[t] = "done"
    /\ reqOp' = [reqOp EXCEPT ![t] = "idle"]
    /\ reqPc' = [reqPc EXCEPT ![t] = "idle"]
    /\ reqNow' = [reqNow EXCEPT ![t] = NoTime]
    /\ reqRes' = [reqRes EXCEPT ![t] = NoResult]
    /\ UNCHANGED << dataVars, loopVars, readVars, tripsEnded, trip_active, trip_start_time,
                    trip_end_time, clock, readings, serial, preTrip >>

\* create_reading, lines 128-160: a Reading is stored under the timestamp
\* its sender gave it
CreateReading ==
    /\ \E ts \in Times : readings' = readings \cup {ts}
    /\ UNCHANGED << dataVars, loopVars, readVars, tripsEnded, trip_active, trip_start_time,
                    trip_end_time, clock, reqOp, reqPc, reqNow, reqRes, serial,
                    preTrip >>

\* the instants of the clock in one second
TicksPerSecond == 2

\* datetime.now(timezone.utc).isoformat(timespec='seconds')
\* (cli_obd_loop.py:149): the instant, cut down to its second
Stamp(now) == (now \div TicksPerSecond) * TicksPerSecond

\* cli_obd_loop.main takes a snapshot now and POSTs it (cli_obd_loop.py:315
\* and 333); create_reading stores it under the stamp of the snapshot
LoopPost ==
    /\ readings' = readings \cup {Stamp(clock)}
    /\ UNCHANGED << dataVars, loopVars, readVars, tripsEnded, trip_active, trip_start_time,
                    trip_end_time, clock, reqOp, reqPc, reqNow, reqRes, serial,
                    preTrip >>

\* time passes; the clock never goes back
ClockTick ==
    /\ clock < MaxClock
    /\ clock' = clock + 1
    /\ UNCHANGED << dataVars, loopVars, readVars, tripsEnded, trip_active, trip_start_time,
                    trip_end_time, readings, reqOp, reqPc, reqNow, reqRes, serial,
                    preTrip >>

TripInit ==
    /\ LoopIdle
    /\ ReadIdle
    /\ TripIdle
    /\ DataIdle

TripNext ==
    \/ ClockTick
    \/ LoopPost
    \/ CreateReading
    \/ \E t \in Threads :
         \/ TripStartActivate(t)
         \/ TripStartReadClock(t)
         \/ TripStartStore(t)
         \/ TripStartResetEnd(t)
         \/ TripEndCheck(t)
         \/ TripEndDeactivate(t)
         \/ TripEndReadClock(t)
         \/ TripEndStore(t)
         \/ SummaryCheckStart(t)
         \/ SummaryCheckEnd(t)
         \/ SummaryCompute(t)
         \/ Return(t)

TripSpec == TripInit /\ [][TripNext]_vars

----------------------------------------------------------------------------
(* One call of an analytics endpoint of api_server, the store, the trip    *)
(* bounds and the limit drawn at the start                                 *)

AnInit ==
    /\ LoopIdle
    /\ ReadIdle
    /\ TripIdle
    /\ GenIdle
    /\ CsvIdle
    /\ AuxIdle
    /\ anDone = FALSE
    /\ anOut = NoAnswer
    /\ \/ /\ anOp = "summary"
          /\ anStore \in Stores
          /\ anWindow \in Windows
          /\ anLimit = 0
       \/ /\ anOp = "summary"
          /\ anStore = ScenarioStore
          /\ anWindow = ScenarioWindow
          /\ anLimit = 0
       \/ /\ anOp = "stats"
          /\ anStore \in Stores
          /\ anWindow = [start |-> 0, end |-> 0]
          /\ anLimit \in 1..MaxStored
       \/ /\ anOp = "state"
          /\ anStore \in Stores
          /\ anWindow = [start |-> 0, end |-> 0]
          /\ anLimit = 0

CallTripSummary ==
    /\ anOp = "summary"
    /\ ~anDone
    /\ anDone' = TRUE
    /\ anOut' = TripSummary(anStore, anWindow.start, anWindow.end)
    /\ UNCHANGED << auxVars, loopVars, readVars, tripVars, genCalls, csvVars, anOp, anStore,
                    anWindow, anLimit >>

CallGetStats ==
    /\ anOp = "stats"
    /\ ~anDone
    /\ anDone' = TRUE
    /\ anOut' = GetStats(anStore, anLimit)
    /\ UNCHANGED << auxVars, loopVars, readVars, tripVars, genCalls, csvVars, anOp, anStore,
                    anWindow, anLimit >>

CallGetVehicleState ==
    /\ anOp = "state"
    /\ ~anDone
    /\ anDone' = TRUE
    /\ anOut' = GetVehicleState(anStore)
    /\ UNCHANGED << auxVars, loopVars, readVars, tripVars, genCalls, csvVars, anOp, anStore,
                    anWindow, anLimit >>

AnNext ==
    \/ CallTripSummary
    \/ CallGetStats
    \/ CallGetVehicleState

AnSpec == AnInit /\ [][AnNext]_vars

----------------------------------------------------------------------------
(* main.generate_fake_reading called twice with one phase (its tick        *)
(* argument), each call at a second of the wall clock drawn when it is made *)

\* the latest second of the wall clock
MaxSecond == 1

Seconds == 0..MaxSecond

\* the calls made with one phase
MaxCalls == 2

\* the Reading a call returns: the fields follow the phase, the timestamp is
\* datetime.now(timezone.utc).isoformat(timespec="seconds") (main.py:108)
StampedReading(q, now) == [timestamp |-> now, fields |-> GenerateFakeReading(q).fields]

GenInit ==
    /\ LoopIdle
    /\ TripIdle
    /\ AnIdle
    /\ CsvIdle
    /\ AuxIdle
    /\ GenIdle
    /\ rdFn = "fake"
    /\ rdQ \in [LiveSignals -> SineSamples]
    /\ rdDone = FALSE
    /\ rdOut = Pending
    /\ lastObd = LastObdInit

GenCall ==
    /\ rdFn = "fake"
    /\ Len(genCalls) < MaxCalls
    /\ \E now \in Seconds :
         /\ genCalls # << >> => genCalls[Len(genCalls)].timestamp <= now
         /\ genCalls' = Append(genCalls, StampedReading(rdQ, now))
    /\ rdDone' = TRUE
    /\ rdOut' = GenerateFakeReading(rdQ)
    /\ UNCHANGED << auxVars, loopVars, tripVars, anVars, csvVars, rdFn, rdQ, lastObd >>

GenNext == GenCall

GenSpec == GenInit /\ [][GenNext]_vars

----------------------------------------------------------------------------
(* obd_readings.csv: main.CsvLogger appends rows through the handle it     *)
(* opened, a dashboard calls data_manager.get_latest_reading("csv").  The  *)
(* file is a sequence of rows, all taken to be of one length.              *)

\* the rows the logger writes
MaxLogged == 3

\* data_manager.py:22
MIN_ROWS == 60

\* the row CsvLogger.write is given: the n-th Reading of the loop
LoggedRow(n, v) == [by |-> "logger", n |-> n, v |-> v]

\* the row _append_fake_rows makes for a tick
FakeRow(tick) == [by |-> "fake", n |-> tick, v |-> 0]

\* _append_fake_rows: fake rows are appended until the list has MIN_ROWS rows
AppendFakeRows(rows) ==
    IF Len(rows) >= MIN_ROWS THEN rows
    ELSE [i \in 1..MIN_ROWS |-> IF i <= Len(rows) THEN rows[i] ELSE FakeRow(i)]

\* CsvLogger.write: writerow and flush.  The handle was opened with mode "w"
\* and keeps its own position, after the rows it has written.
CsvLoggerWrite ==
    /\ Len(csvLogged) < MaxLogged
    /\ \E v \in 0..MaxRaw :
         LET row == LoggedRow(Len(csvLogged) + 1, v)
             pos == Len(csvLogged) IN
         /\ csvLogged' = Append(csvLogged, row)
         /\ csvFile' = IF Len(csvFile) <= pos
                          THEN Append(csvFile, row)
                          ELSE [csvFile EXCEPT ![pos + 1] = row]
    /\ UNCHANGED << auxVars, loopVars, readVars, tripVars, anVars, genCalls, rdrPc, rdrRows >>

\* get_latest_reading, lines 205-225: _read_csv_rows loads the rows of the
\* file (a file without its header row makes it raise)
LatestLoad ==
    /\ rdrPc = "idle"
    /\ csvFile # << >>
    /\ rdrPc' = "loaded"
    /\ rdrRows' = csvFile
    /\ UNCHANGED << auxVars, loopVars, readVars, tripVars, anVars, genCalls, csvFile, csvLogged >>

\* get_latest_reading, lines 226-234: _append_fake_rows on the loaded rows,
\* then _write_csv, which truncates the file and writes every row, if a fake
\* row was added
LatestStore ==
    /\ rdrPc = "loaded"
    /\ rdrPc' = "idle"
    /\ rdrRows' = AppendFakeRows(rdrRows)
    /\ csvFile' = IF Len(rdrRows) < MIN_ROWS THEN AppendFakeRows(rdrRows) ELSE csvFile
    /\ UNCHANGED << auxVars, loopVars, readVars, tripVars, anVars, genCalls, csvLogged >>

CsvInit ==
    /\ LoopIdle
    /\ ReadIdle
    /\ TripIdle
    /\ AnIdle
    /\ GenIdle
    /\ CsvIdle
    /\ AuxIdle

CsvNext ==
    \/ CsvLoggerWrite
    \/ LatestLoad
    \/ LatestStore

CsvSpec == CsvInit /\ [][CsvNext]_vars

----------------------------------------------------------------------------
(* tk_dashboard.DashboardApp on its Tk root.  The methods run on the one   *)
(* thread of the event loop, so each is a step; start, stop, on_close and  *)
(* refresh_dashboard may also be called directly, as the tests do.         *)

\* the refreshes of a run
MaxFrames == 3

\* tk_dashboard.py:22
REFRESH_MS == 1000

\* what the data fetch of a refresh does: it returns a reading, it raises, or
\* it returns an empty reading
FetchOutcomes == {"ok", "raise", "empty"}

\* faulty variant: simulated mode stays once entered
SimulatedLatched(out, mode) == mode \/ out # "ok"

\* lines 192-218: simulated is set in the except clause, which an empty
\* reading reaches through ValueError
Simulated(out, mode) == out # "ok"

\* self.obd_connection after the fetch: _ensure_obd_connection runs in obd
\* mode only; it may raise before it holds a handle
ConnectionsAfter(out) ==
    IF data_source # "obd" THEN {obd_connection}
    ELSE IF out = "ok" THEN {"held"}
    ELSE {"none", "held"}

\* faulty variant: a failed refresh schedules nothing
ScheduledWhenLive(cbs, out) ==
    IF out = "ok" THEN cbs \cup {[id |-> nextId, ms |-> REFRESH_MS]} ELSE cbs

\* line 268: self.root.after(REFRESH_MS, self.refresh_dashboard)
Scheduled(cbs, out) == cbs \cup {[id |-> nextId, ms |-> REFRESH_MS]}

\* faulty variant: the callback stays scheduled
CancelNothing(cbs, id) == cbs

\* root.after_cancel(id)
Cancel(cbs, id) == { c \in cbs : c.id # id }

\* refresh_dashboard, with cbs the callbacks scheduled when it is entered
Refresh(cbs, out, conn) ==
    /\ frame_count' = frame_count + 1
    /\ fetchLog' = Append(fetchLog, out)
    /\ obd_connection' = conn
    /\ simulated_mode' = Simulated(out, simulated_mode)
    /\ sim_label' = Simulated(out, simulated_mode)
    /\ pending' = Scheduled(cbs, out)
    /\ after_id' = nextId
    /\ nextId' = nextId + 1

\* start: the close handler is set, then the first refresh runs
DashStart ==
    /\ ~started
    /\ ~destroyed
    /\ frame_count < MaxFrames
    /\ started' = TRUE
    /\ \E out \in FetchOutcomes : \E conn \in ConnectionsAfter(out) :
         Refresh(pending, out, conn)
    /\ UNCHANGED << loopVars, readVars, tripVars, anVars, genCalls, csvVars,
                    liveVars, fakeVars, runVars, data_source, destroyed >>

\* refresh_dashboard called directly
RefreshDirect ==
    /\ ~destroyed
    /\ frame_count < MaxFrames
    /\ \E out \in FetchOutcomes : \E conn \in ConnectionsAfter(out) :
         Refresh(pending, out, conn)
    /\ UNCHANGED << loopVars, readVars, tripVars, anVars, genCalls, csvVars,
                    liveVars, fakeVars, runVars, data_source, started, destroyed >>

\* the event loop fires a scheduled callback: refresh_dashboard runs
RefreshTimer ==
    /\ ~destroyed
    /\ frame_count < MaxFrames
    /\ \E c \in pending :
         \E out \in FetchOutcomes : \E conn \in ConnectionsAfter(out) :
           Refresh(pending \ {c}, out, conn)
    /\ UNCHANGED << loopVars, readVars, tripVars, anVars, genCalls, csvVars,
                    liveVars, fakeVars, runVars, data_source, started, destroyed >>

\* stop
DashStop ==
    /\ ~destroyed
    /\ after_id # NoAfter
    /\ pending' = Cancel(pending, after_id)
    /\ after_id' = NoAfter
    /\ UNCHANGED << loopVars, readVars, tripVars, anVars, genCalls, csvVars,
                    liveVars, fakeVars, runVars, data_source, frame_count, simulated_mode, sim_label,
                    obd_connection, nextId, started, destroyed, fetchLog >>

\* on_close: stop, close the OBD handle, destroy the root
OnClose ==
    /\ ~destroyed
    /\ pending' = IF after_id # NoAfter THEN Cancel(pending, after_id) ELSE pending
    /\ after_id' = NoAfter
    /\ obd_connection' = "none"
    /\ destroyed' = TRUE
    /\ UNCHANGED << loopVars, readVars, tripVars, anVars, genCalls, csvVars,
                    liveVars, fakeVars, runVars, data_source, frame_count, simulated_mode, sim_label, nextId,
                    started, fetchLog >>

DashInit ==
    /\ LoopIdle
    /\ ReadIdle
    /\ TripIdle
    /\ AnIdle
    /\ GenIdle
    /\ CsvIdle
    /\ LiveIdle
    /\ FakeIdle
    /\ RunIdle
    /\ data_source \in {"csv", "obd"}
    /\ frame_count = 0
    /\ simulated_mode = FALSE
    /\ sim_label = FALSE
    /\ after_id = NoAfter
    /\ obd_connection = "none"
    /\ pending = {}
    /\ nextId = 1
    /\ started = FALSE
    /\ destroyed = FALSE
    /\ fetchLog = << >>

DashNext ==
    \/ DashStart
    \/ RefreshDirect
    \/ RefreshTimer
    \/ DashStop
    \/ OnClose

DashSpec == DashInit /\ [][DashNext]_vars

----------------------------------------------------------------------------
(* data_manager._read_obd_live called again and again in one process, with *)
(* or without a connection of the caller; _LAST_OBD_READING lives on from  *)
(* call to call.                                                           *)

\* the number of calls of a run
MaxLiveCalls == 3

\* the largest number of queries of one call that meet something else than a
\* null response
MaxAnswered == 2

NullResponse == [kind |-> "null", mag |-> 0]

\* what a query of a run of calls meets when it is not a null response: it
\* raises or returns a value (the function converts no unit, and a None
\* response raises at is_null() like a query that raises)
LiveAnswers == { o \in Outcomes : o.kind \in {"exc", "val"} }

\* what the six queries of one call meet
LiveInputs ==
    UNION { { [s \in LiveSignals |-> IF s \in S THEN f[s] ELSE NullResponse] :
                f \in [S -> LiveAnswers] } :
            S \in { T \in SUBSET LiveSignals : Cardinality(T) <= MaxAnswered } }

\* What a call meets before its queries: import obd raises ("noimport"),
\* obd.OBD(...) raises ("openraises"), is_connected() is false
\* ("notconnected") or true ("connected").
LiveEnvs == {"noimport", "openraises", "notconnected", "connected"}

\* the path of a call: where it raised, or "ok" when it returned a Reading
LivePath(env, q) ==
    IF env = "connected" THEN (IF LiveRaises(q) THEN "raise" ELSE "ok") ELSE env

\* data_manager.py:118-120: a call without a connection opens one
LiveOpens(owns, env) ==
    IF owns /\ env \in {"notconnected", "connected"} THEN 1 ELSE 0

\* faulty variant: the queries run without the finally clause
LiveClosesNoFinally(owns, path) ==
    IF owns /\ path \in {"notconnected", "ok"} THEN 1 ELSE 0

\* data_manager.py:125-127 and 178-180: the close() calls of a call
LiveCloses(owns, path) ==
    IF owns /\ path \in {"notconnected", "raise", "ok"} THEN 1 ELSE 0

\* _read_obd_live (data_manager.py:102-193), one call
CallReadObdLive ==
    /\ lvCalls < MaxLiveCalls
    /\ \E injected \in BOOLEAN, env \in LiveEnvs, q \in LiveInputs :
         LET path == LivePath(env, q)
         IN  /\ (env = "openraises" => ~injected)
             /\ (env # "connected" => q = [s \in LiveSignals |-> NullResponse])
             /\ lvInjected' = injected
             /\ lvPath' = path
             /\ lvOpened' = LiveOpens(~injected, env)
             /\ lvCloses' = LiveCloses(~injected, path)
             /\ rdQ' = q
             /\ rdOut' = IF path = "ok" THEN ReadObdLive(q, lastObd) ELSE Raised
             /\ lastObd' = IF path = "ok" THEN LastObdAfter(q, lastObd) ELSE lastObd
    /\ lvCalls' = lvCalls + 1
    /\ rdDone' = TRUE
    /\ lvDone' = IF lvPath = "ok" THEN lvDone + 1 ELSE lvDone
    /\ lvPrev' = IF lvPath = "ok" THEN rdOut.fields ELSE lvPrev
    /\ UNCHANGED << loopVars, tripVars, anVars, genCalls, csvVars, dashVars,
                    fakeVars, runVars, rdFn >>

LiveInit ==
    /\ LoopIdle
    /\ TripIdle
    /\ AnIdle
    /\ GenIdle
    /\ CsvIdle
    /\ DashIdle
    /\ FakeIdle
    /\ RunIdle
    /\ LiveIdle
    /\ rdFn = "live"
    /\ rdQ = [s \in LiveSignals |-> NullResponse]
    /\ rdDone = FALSE
    /\ rdOut = Pending
    /\ lastObd = LastObdInit

LiveNext == CallReadObdLive

LiveSpec == LiveInit /\ [][LiveNext]_vars

----------------------------------------------------------------------------
(* main.run_fake_cycles, called with a CSV logger as main does.  SIGINT is *)
(* handled by main.handle_sigint, which sets _shutdown_requested and raises *)
(* KeyboardInterrupt in the running cycle.                                  *)

\* the largest COUNT of a run
MaxCount == 6

\* main.py:24
FAKE_RECONNECT_EVERY == 3

\* the values of the parameter count: negative, zero, positive
Counts == -1..MaxCount

\* faulty variant: a cycle starts whatever the flag says
CycleStartsAnyway(flag) == TRUE

\* main.py:227-229: a cycle starts unless shutdown has been requested
CycleStarts(flag) == ~flag

\* main.py:236
ReconnectDue(index) == index % FAKE_RECONNECT_EVERY = 0

\* main.py:219-224: a count that is not positive returns at once
FakeStart ==
    /\ fake_pc = "start"
    /\ fake_pc' = IF fake_count <= 0 THEN "done" ELSE "cycle"
    /\ UNCHANGED << loopVars, readVars, tripVars, anVars, genCalls, csvVars,
                    dashVars, liveVars, runVars, shutdown_requested, fake_count,
                    fake_index, fake_written, fake_completed, fake_connects >>

\* main.py:226-238 and 244-245: the for statement takes the next index, or
\* ends the loop through its else clause; the cycle checks the flag, writes
\* one fake reading and logs it
FakeCycle ==
    /\ fake_pc = "cycle"
    /\ IF fake_index >= fake_count
       THEN /\ fake_completed' = TRUE
            /\ fake_pc' = "done"
            /\ UNCHANGED << fake_index, fake_written >>
       ELSE /\ fake_index' = fake_index + 1
            /\ fake_completed' = fake_completed
            /\ IF CycleStarts(shutdown_requested)
               THEN /\ fake_written' = fake_written + 1
                    /\ fake_pc' = IF ReconnectDue(fake_index + 1)
                                  THEN "reconnect" ELSE "sleep"
               ELSE /\ fake_written' = fake_written
                    /\ fake_pc' = "done"
    /\ UNCHANGED << loopVars, readVars, tripVars, anVars, genCalls, csvVars,
                    dashVars, liveVars, runVars, shutdown_requested, fake_count,
                    fake_connects >>

\* main.py:236-238: reconnect_obd(None) waits and calls connect_to_obd; what it
\* returns is dropped
FakeReconnect ==
    /\ fake_pc = "reconnect"
    /\ fake_connects' = fake_connects + 1
    /\ fake_pc' = "sleep"
    /\ UNCHANGED << loopVars, readVars, tripVars, anVars, genCalls, csvVars,
                    dashVars, liveVars, runVars, shutdown_requested, fake_count,
                    fake_index, fake_written, fake_completed >>

\* main.py:240-242: sleep the rest of the second
FakeSleep ==
    /\ fake_pc = "sleep"
    /\ fake_pc' = "cycle"
    /\ UNCHANGED << loopVars, readVars, tripVars, anVars, genCalls, csvVars,
                    dashVars, liveVars, runVars, shutdown_requested, fake_count,
                    fake_index, fake_written, fake_completed, fake_connects >>

\* main.py:190-199: SIGINT during the run; the KeyboardInterrupt leaves
\* run_fake_cycles through its finally clause
FakeSigint ==
    /\ fake_pc \in {"cycle", "reconnect", "sleep"}
    /\ shutdown_requested' = TRUE
    /\ fake_pc' = "interrupted"
    /\ UNCHANGED << loopVars, readVars, tripVars, anVars, genCalls, csvVars,
                    dashVars, liveVars, runVars, fake_count, fake_index,
                    fake_written, fake_completed, fake_connects >>

\* The call; _shutdown_requested is a module global: main clears it before
\* the run (main.py:506-507), another caller may find it set by an earlier
\* SIGINT.
FakeInit ==
    /\ LoopIdle
    /\ ReadIdle
    /\ TripIdle
    /\ AnIdle
    /\ GenIdle
    /\ CsvIdle
    /\ DashIdle
    /\ LiveIdle
    /\ RunIdle
    /\ shutdown_requested \in BOOLEAN
    /\ fake_pc = "start"
    /\ fake_count \in Counts
    /\ fake_index = 0
    /\ fake_written = 0
    /\ fake_completed = FALSE
    /\ fake_connects = 0

\* the steps of run_fake_cycles itself
FakeStep ==
    \/ FakeStart
    \/ FakeCycle
    \/ FakeReconnect
    \/ FakeSleep

FakeNext ==
    \/ FakeStep
    \/ FakeSigint

\* The statements of run_fake_cycles follow one another, its sleeps are
\* finite and connect_to_obd returns: a step that is possible is eventually
\* taken.  Nothing is assumed of SIGINT.
FakeSpec == FakeInit /\ [][FakeNext]_vars /\ WF_vars(FakeStep)

----------------------------------------------------------------------------
(* Properties of the acquisition loops *)

LastEvent == IF log = << >> THEN "none" ELSE log[Len(log)]

\* the loop is between two ticks, the latest tick's work all done
BetweenTicks == pc \in {"sleep", "tick"} /\ lastTick # "none"

\* the forced reconnect of cli_obd_loop.main is under way
InReconnect == pc \in {"close", "backoff", "connect"}

\* C1 (as amended): in cli_obd_loop.main a forced reconnect is under way only
\* after max_failures failed ticks in a row; once such a run is over and
\* before the next tick, exactly one reconnect cycle has run: one close step
\* (close() called once on the held handle, not at all when no handle was
\* held), one connect_to_obd call, and the counter is 0; after any shorter
\* run of failures no close() and no connect have been made.
C1_ForcedReconnect ==
    program = "cli" =>
        /\ (InReconnect => failRun = max_failures /\ lastTick = "fail")
        /\ (BetweenTicks /\ failRun = max_failures =>
                /\ closeSteps = 1
                /\ closeCalls = (IF prevConn = "none" THEN 0 ELSE 1)
                /\ connects = 1
                /\ consecutive_failures = 0)
        /\ (BetweenTicks /\ failRun < max_failures =>
                closeSteps = 0 /\ closeCalls = 0 /\ connects = 0)

\* C1 (as stated): the same, with close() called exactly once in every
\* forced reconnect, whether or not a handle was held.
C1_AsStated ==
    program = "cli" =>
        /\ (InReconnect => failRun = max_failures /\ lastTick = "fail")
        /\ (BetweenTicks /\ failRun = max_failures =>
                /\ closeCalls = 1
                /\ connects = 1
                /\ consecutive_failures = 0)
        /\ (BetweenTicks /\ failRun < max_failures =>
                closeCalls = 0 /\ connects = 0)

\* C1 witness: a run of max_failures failed ticks on a live handle has been
\* answered by one close() and one connect, and the loop waits for its next tick.
C1_Witness ==
    /\ program = "cli"
    /\ pc = "sleep"
    /\ failRun = max_failures
    /\ prevConn = "car"
    /\ closeCalls = 1
    /\ connects = 1
    /\ consecutive_failures = 0

\* C2: in cli_obd_loop.main a tick that completes without an exception leaves
\* the counter at 0, the counter never exceeds the number of failed ticks in
\* a row, and a forced reconnect starts only when that unbroken run has
\* reached max_failures.
C2_SuccessResets ==
    program = "cli" =>
        /\ (lastTick = "ok" => consecutive_failures = 0)
        /\ consecutive_failures <= failRun
        /\ (pc = "close" => failRun >= max_failures)

\* C2 witness: a successful tick has just broken a run of failed ticks one
\* short of the threshold, and the counter is back at 0.
C2_Witness ==
    /\ program = "cli"
    /\ lastTick = "ok"
    /\ beforeRun = max_failures - 1
    /\ consecutive_failures = 0
    /\ pc = "sleep"

\* C3 (as stated): every tick emits exactly one Reading, and on a tick that
\* started without a usable handle or whose acquisition raised, the Reading
\* comes from the simulated generator.
C3_OneReadingPerTick ==
    lastTick # "none" =>
        /\ emitted = 1
        /\ (tickSim \/ lastTick = "fail" => source = "sim")

\* the loop of cli_obd_loop.main runs and holds no handle: the Simulated state
CliSimulated == program = "cli" /\ pc \notin {"start", "done", "crashed"} /\ connection = "none"

\* the step is a tick of cli_obd_loop.main / a connect_to_obd call
TickStep == pc = "tick" /\ pc' \in {"sleep", "close"}
ConnectStep == connects' = connects + 1

\* C5 (as amended): while cli_obd_loop.main holds no handle, a tick issues no
\* query and makes no call on an adapter handle, and the Reading it emits
\* comes from the simulated generator; no step but the connect attempt of a
\* forced reconnect (after max_failures failed ticks in a row) makes a call
\* on an adapter handle.
C5_SimulatedTouchesNoHardware ==
    [][CliSimulated =>
          /\ (TickStep =>
                /\ queries' = 0
                /\ hwCalls' = 0
                /\ (emitted' = 1 => source' = "sim"))
          /\ (~TickStep /\ ~ConnectStep => hwCalls' = hwCalls)
          /\ (ConnectStep => failRun = max_failures /\ pc = "connect")]_vars

\* C5 (as stated): while cli_obd_loop.main holds no handle, no step of a tick
\* issues a query or any other call on an adapter handle.
C5_AsStated ==
    [][CliSimulated =>
          /\ (TickStep => queries' = 0 /\ hwCalls' = 0)
          /\ (~TickStep => hwCalls' = hwCalls)]_vars

\* C5 witness: a tick taken without a handle has emitted a simulated Reading
\* and has made no call on an adapter handle.
C5_Witness ==
    /\ program = "cli"
    /\ pc = "sleep"
    /\ connection = "none"
    /\ tickSim
    /\ emitted = 1
    /\ source = "sim"
    /\ queries = 0
    /\ hwCalls = 0

\* the worlds in which connect_to_obd must return no handle
NoHandleWorlds == {"missing", "noimport", "raise", "other"}

\* C6: no connect_to_obd call raises to the loop (the loop never crashes),
\* and a call that met a missing device, a missing library, a raising
\* connection attempt or a status other than car-connected or ELM-connected
\* has returned no handle: the loop is in the Simulated state.
C6_ConnectNeverRaises ==
    /\ pc # "crashed"
    /\ (LastEvent = "connect" /\ lastEnv \in NoHandleWorlds =>
            connection = "none" /\ ConnState = "Simulated")

\* C6 witness: a reconnect whose connection attempt raised has returned no
\* handle, and the loop goes on without one.
C6_Witness ==
    /\ LastEvent = "connect"
    /\ lastEnv = "raise"
    /\ prevConn = "car"
    /\ connection = "none"
    /\ pc = "sleep"

\* C7: no step takes the connection state from CarConnected to Simulated,
\* and a step that enters Simulated while the loop still holds the old handle
\* finds that handle closed.
C7_CarNeverStraightToSimulated ==
    [][/\ (ConnState = "CarConnected" => ConnState' # "Simulated")
       /\ (ConnState' = "Simulated" /\ connection # "none" => closed)]_vars

\* C7 witness: the loop held a car-connected handle, closed it, and the
\* connect that followed returned no handle.
C7_Witness ==
    /\ prevConn = "car"
    /\ LastEvent = "connect"
    /\ ConnState = "Simulated"
    /\ lastClose = "ok"
    /\ closeCalls = 1

\* C8 (as stated): a loop that holds an ELM-only handle while the ignition is
\* on eventually holds a car-connected handle (unless the ignition is turned
\* off again or the loop is stopped).
C8_ElmEventuallyCar ==
    (ConnState = "ElmOnly" /\ world = "car")
        ~> (ConnState = "CarConnected" \/ world # "car" \/ pc = "done")

\* C9: every connect but the first is the third event of close, wait,
\* connect; when the connect is about to be made the wait has just been
\* taken and the old handle, if any, is closed.
C9_CloseWaitConnect ==
    /\ (LastEvent = "connect" /\ Len(log) > 1 =>
            /\ Len(log) = 3
            /\ log[1] = "close"
            /\ log[2] = "wait")
    /\ (pc = "connect" =>
            /\ LastEvent = "wait"
            /\ (connection = "none" \/ closed))

\* C9 witness: a reconnect has been made after a close and a wait, following
\* an earlier connect that had returned a handle.
C9_Witness ==
    /\ log = << "close", "wait", "connect" >>
    /\ prevConn # "none"
    /\ lastClose = "ok"
    /\ connects = 1

\* C10: no close makes the loop crash; after the close step of a reconnect
\* the loop goes on to the backoff, and after any close step the loop holds
\* either no handle or a closed one, whether close() returned, raised, was
\* called on a closed handle or there was no handle to close.
C10_CloseNeverRaises ==
    /\ pc # "crashed"
    /\ (LastEvent = "close" =>
            /\ pc \in {"backoff", "done"}
            /\ lastClose \in {"ok", "raised", "again", "nohandle"}
            /\ (connection # "none" => closed)
            /\ ConnState = (IF connection = "none" THEN "Simulated" ELSE "Disconnected"))

\* C10 witness: close() raised during a reconnect and the loop is at its
\* backoff wait, the handle counted as closed.
C10_Witness ==
    /\ LastEvent = "close"
    /\ lastClose = "raised"
    /\ pc = "backoff"
    /\ ConnState = "Disconnected"

\* C11 (as stated): when an interrupt has stopped a loop that was running
\* (at a read, a sink call, a sleep or a reconnect), the loop has not crashed
\* and every adapter handle opened during the session has been closed: the
\* handle the loop holds, and every handle a connect attempt built.
C11_HandlesClosedOnExit ==
    /\ pc # "crashed"
    /\ (pc = "done" /\ LastEvent = "close" =>
            /\ (connection = "none" \/ closed)
            /\ ~leaked)

\* C12 (as stated): no loop retries without bound: once the adapter is gone
\* for good, main.run_real_mode eventually makes no further connect attempt
\* (its failures have ended in a forced reconnect and the read / reconnect
\* attempts do not go on for ever).
C12_NoUnboundedRetry ==
    (program = "real" /\ <>[](world = "missing")) => <>[](pc # "connect")

----------------------------------------------------------------------------
(* Properties of the snapshot readers *)

\* the query of signal s failed: it raised, returned None or a null response
QueryFailed(s) == rdQ[s].kind \notin ValueKinds

\* field s of the returned Reading holds what its own query returned
FieldKept(s) == rdOut.fields[s] = Normalize(s, Val(rdQ[s].mag))

\* the call returned a Reading in which exactly the fields of the failed
\* queries are absent
OnlyFailedAbsent ==
    /\ ~rdOut.raised
    /\ rdOut.timestamp
    /\ \A s \in SignalsOf(rdFn) :
          IF QueryFailed(s) THEN rdOut.fields[s] = Absent ELSE FieldKept(s)

\* C4 (as amended): in read_obd_snapshot and read_obd_pids, for every subset
\* of failing queries (raising, None or null response), the call returns a
\* Reading, raises nothing, the fields of the failed queries are absent and
\* every other field holds the value of its own query.  _read_obd_live is
\* different: a query that raises or returns None makes the call raise, and
\* a null response leaves the field at its last stored value (0 for rpm,
\* speed, coolant and throttle, absent for load and timing at first).
C4_OneFailureOneField ==
    rdDone /\ rdFn \in LiveReaders =>
        IF rdFn \in {"snapshot", "pids"} THEN OnlyFailedAbsent
        ELSE /\ rdOut.raised = (\E s \in LiveSignals : rdQ[s].kind \in {"exc", "nil"})
             /\ (~rdOut.raised =>
                    \A s \in LiveSignals :
                        IF QueryFailed(s)
                        THEN rdOut.fields[s] =
                                (IF s \in {"load", "timing"} THEN Absent ELSE Val(0))
                        ELSE FieldKept(s))

\* C4 (as stated): in each of the three readers, for every subset of failing
\* queries, the call returns a Reading, raises nothing, the fields of the
\* failed queries are absent and every other field holds the value of its
\* own query.
C4_AsStated == rdDone /\ rdFn \in LiveReaders => OnlyFailedAbsent

\* C4 witness: read_obd_snapshot met a raising rpm query, a null coolant
\* response and a None throttle response next to a speed query that
\* returned 1 km/h: it returned a Reading with speed 0.6 mph and rpm,
\* coolant and throttle absent.
C4_Witness ==
    /\ rdDone
    /\ rdFn = "snapshot"
    /\ rdQ["rpm"].kind = "exc"
    /\ rdQ["coolant"].kind = "null"
    /\ rdQ["throttle"].kind = "nil"
    /\ rdQ["speed"] = [kind |-> "val", mag |-> 1]
    /\ ~rdOut.raised
    /\ rdOut.fields["speed"] = Val(6)
    /\ rdOut.fields["rpm"] = Absent
    /\ rdOut.fields["coolant"] = Absent
    /\ rdOut.fields["throttle"] = Absent

\* every sensor field of the returned Reading is absent
AllFieldsAbsent == \A s \in SignalsOf(rdFn) : rdOut.fields[s] = Absent

\* C13: every Reading returned by read_obd_snapshot, read_obd_pids,
\* _read_obd_live, _generate_fake_snapshot and generate_fake_reading carries a
\* timestamp, whatever subset of its sensor fields is absent, all of them
\* included; the simulated Readings have every field present.
C13_TimestampAlwaysPresent ==
    rdDone /\ ~rdOut.raised =>
        /\ rdOut.timestamp
        /\ (rdFn \in Generators =>
                \A s \in SignalsOf(rdFn) : rdOut.fields[s].present)

\* C13 witness: read_obd_snapshot, every query of which failed, returned a
\* Reading with a timestamp and every sensor field absent.
C13_Witness ==
    /\ rdDone
    /\ rdFn = "snapshot"
    /\ ~rdOut.raised
    /\ AllFieldsAbsent
    /\ rdOut.timestamp

\* C14 (as stated): in read_obd_snapshot and read_obd_pids, a value whose
\* conversion to the unit of its signal fails makes the call neither raise
\* nor report a number for that field: the field is absent.
C14_FailedConversionAbsent ==
    rdDone /\ rdFn \in {"snapshot", "pids"} =>
        /\ ~rdOut.raised
        /\ \A s \in SignalsOf(rdFn) :
              HasTargetUnit(s) /\ rdQ[s].kind = "odd" => rdOut.fields[s] = Absent

----------------------------------------------------------------------------
(* Properties of the trip API *)

\* no trip_start and no trip_end call is in flight
NoTripWriter == \A t \in Threads : reqOp[t] \in {"idle", "summary"}

\* thread t has the response of a call of handler op ready
Done(t, op) == reqOp[t] = op /\ reqPc[t] = "done"

\* C15: after a sequence of trip_start and trip_end calls (no two calls
\* overlapping), a trip_summary call made while a trip is in progress returns
\* the "trip still active" result, without analytics fields, also when an
\* earlier trip has been completed.
C15_ActiveTripRefusesSummary ==
    \A t \in Threads :
        serial /\ Done(t, "summary") /\ trip_active =>
            /\ reqRes[t].kind = "active"
            /\ ~reqRes[t].analytics

\* C15 witness: a trip was completed, a new one was started and is in
\* progress, and trip_summary has answered "trip still active".
C15_Witness ==
    \E t \in Threads :
        /\ serial
        /\ Done(t, "summary")
        /\ tripsEnded
        /\ trip_active
        /\ reqRes[t].kind = "active"

\* C16 (as stated): whenever no trip_start or trip_end call is in flight and
\* both times are set, trip_start_time <= trip_end_time; no summary reports a
\* negative duration.
C16_StartNotAfterEnd ==
    /\ (NoTripWriter /\ trip_start_time # NoTime /\ trip_end_time # NoTime =>
            trip_start_time <= trip_end_time)
    /\ \A t \in Threads : reqRes[t].duration >= 0

\* C17: a trip_start call made while a trip is in progress (and overlapped by
\* no other call) sets the start time to the instant it read, which is not
\* before the call began nor after it returned, keeps trip_active true and
\* leaves the end time unset; the one trip state is all there is.
C17_RestartResetsStart ==
    \A t \in Threads :
        serial /\ Done(t, "start") /\ preTrip.active =>
            /\ trip_active
            /\ trip_start_time = reqNow[t]
            /\ preTrip.start <= trip_start_time
            /\ trip_start_time <= clock
            /\ trip_end_time = NoTime
            /\ reqRes[t].kind = "started"

\* C17 witness: trip_start was called while a trip was in progress and has
\* moved the start time forward.
C17_Witness ==
    \E t \in Threads :
        /\ serial
        /\ Done(t, "start")
        /\ preTrip.active
        /\ trip_active
        /\ trip_start_time > preTrip.start
        /\ trip_end_time = NoTime

\* C18: the first step of a trip_end call that finds no trip in progress
\* changes none of trip_active, trip_start_time and trip_end_time and has the
\* warning ready as the response of the call; a call that answers with the
\* warning has nothing left to do.
C18_EndWhileInactiveIsNoOp ==
    [][\A t \in Threads :
          /\ (reqOp[t] = "idle" /\ reqOp'[t] = "end" /\ ~trip_active =>
                /\ TripState' = TripState
                /\ reqPc'[t] = "done"
                /\ reqRes'[t] = Plain("warning"))
          /\ (reqOp[t] = "end" /\ reqRes[t].kind = "warning" =>
                reqPc[t] = "done")]_vars

\* C18 witness: a second trip_end after a completed trip has answered with
\* the warning and the end of the finished trip has not moved.
C18_Witness ==
    \E t \in Threads :
        /\ serial
        /\ Done(t, "end")
        /\ reqRes[t].kind = "warning"
        /\ tripsEnded
        /\ trip_end_time # NoTime
        /\ clock > trip_end_time
        /\ TripState = preTrip

\* C19 (as stated): whenever no trip_start or trip_end call is in flight,
\* trip_active is true exactly when trip_start_time is set and trip_end_time
\* is unset.
C19_ActiveIffStartedNotEnded ==
    NoTripWriter =>
        (trip_active <=> (trip_start_time # NoTime /\ trip_end_time = NoTime))

C21_ClosedRange ==
    [][(/\ serial
        /\ NoTripWriter
        /\ trip_start_time # NoTime
        /\ trip_end_time # NoTime
        /\ clock > trip_end_time
        /\ readings' = readings \cup {Stamp(clock)})
       => Summarize(trip_start_time, trip_end_time)'
              = Summarize(trip_start_time, trip_end_time)]_vars

----------------------------------------------------------------------------
(* Properties of the analytics endpoints *)

\* the stored rows whose timestamp is an instant t with start <= t <= end
RowsInTrip ==
    SelectSeq(anStore, LAMBDA r : /\ r.ts.kind = "utc"
                                  /\ anWindow.start <= r.ts.t
                                  /\ r.ts.t <= anWindow.end)

SummaryDone == anOp = "summary" /\ anDone

\* C22: trip_summary uses exactly the stored Readings whose timestamp t
\* satisfies trip_start <= t <= trip_end, both bounds inclusive, and no stored
\* timestamp makes the summary fail.  Violated: a stored timestamp without a
\* UTC offset parses, and the comparison with the trip bounds raises.
C22_WindowIsInclusiveRange ==
    SummaryDone =>
        /\ anOut.kind # "raised"
        /\ anOut.kind = "summary" => anOut.used = RowsInTrip
        /\ anOut.kind = "error" => RowsInTrip = << >>

Summarized == SummaryDone /\ anOut.kind = "summary"

\* some row of the trip window has the field
HasField(f) == \E i \in 1..Len(RowsInTrip) : RowsInTrip[i][f].present

\* C23: when no Reading in the trip window has maf_gps, trip_summary returns
\* fuel_used_gallons and mpg_estimate absent with a note, and the note is set in
\* that case only.
C23_NoMafNoFuel ==
    Summarized =>
        /\ anOut.note <=> ~HasField("maf")
        /\ ~HasField("maf") => /\ ~anOut.fuel_used_gallons.present
                               /\ ~anOut.mpg_estimate.present
        /\ HasField("maf") => anOut.fuel_used_gallons.present

C23_Witness ==
    /\ Summarized
    /\ ~HasField("maf")
    /\ HasField("speed")
    /\ anOut.note

\* the magnitude of a difference
Gap(a, b) == IF a < b THEN b - a ELSE a - b

\* C24 (amended): mpg_estimate is present exactly when fuel is present and the
\* reported fuel_used_gallons and total_distance_miles are both above zero; it
\* is then their quotient, to the tenth of a mpg.
C24_MpgNeedsFuelAndDistance ==
    Summarized =>
        /\ anOut.mpg_estimate.present <=>
               /\ anOut.fuel_used_gallons.present
               /\ anOut.fuel_used_gallons.v > 0
               /\ anOut.total_distance_miles > 0
        /\ anOut.mpg_estimate.present =>
               2 * Gap(anOut.mpg_estimate.v * anOut.fuel_used_gallons.v,
                       100 * anOut.total_distance_miles)
                   <= anOut.fuel_used_gallons.v

C24_Witness ==
    /\ Summarized
    /\ anOut.mpg_estimate.present
    /\ anOut.mpg_estimate.v > 0

\* C24 as stated: mpg_estimate is present exactly when distance and fuel are
\* present and fuel_gallons > 0.  Violated by a trip spent standing with the
\* engine running: fuel is above zero, the distance is 0.0, mpg is absent.
C24_AsStated ==
    Summarized =>
        (anOut.mpg_estimate.present <=>
            /\ anOut.fuel_used_gallons.present
            /\ anOut.fuel_used_gallons.v > 0)

\* the speeds of the rows of the trip window, an absent speed counted as 0
RECURSIVE SpeedSum(_)
SpeedSum(rows) ==
    IF rows = << >> THEN 0
    ELSE (IF rows[1].speed.present THEN rows[1].speed.v ELSE 0) + SpeedSum(Tail(rows))

\* C25 (amended): total_distance_miles is the sum over all Readings of the
\* trip window of speed_mph x (1 s / 3600), whatever their timestamps, rounded
\* to the hundredth of a mile; a Reading without speed adds 0 and is counted
\* in total_samples.
C25_DistanceIsRoundedSum ==
    Summarized =>
        /\ 2 * Gap(TenthsPerCentimile * anOut.total_distance_miles, SpeedSum(RowsInTrip))
               <= TenthsPerCentimile
        /\ anOut.total_samples = Len(RowsInTrip)

C25_Witness ==
    /\ Summarized
    /\ \E i \in 1..Len(RowsInTrip) : ~RowsInTrip[i].speed.present
    /\ anOut.total_distance_miles > 0
    /\ anOut.total_samples > 1

\* C25 as stated: the total distance equals the sum.  Violated by one Reading
\* at 25 mph: the sum is 0.0069 mile, the summary says 0.01.
C25_AsStated ==
    Summarized =>
        TenthsPerCentimile * anOut.total_distance_miles = SpeedSum(RowsInTrip)

\* the rows a call has read: the trip window, or the most recent rows
Considered == anOut.used

\* the present values of a field among the rows considered
ValuesOf(f) ==
    { Considered[i][f].v : i \in { j \in 1..Len(Considered) : Considered[j][f].present } }

RECURSIVE SetSum(_)
SetSum(S) == IF S = {} THEN 0 ELSE LET x == CHOOSE y \in S : TRUE IN x + SetSum(S \ {x})

\* the number of rows considered that have the field
CountOf(f) == Cardinality({ j \in 1..Len(Considered) : Considered[j][f].present })

\* the sum of the present values of a field
TotalOf(f) ==
    SetSum({ v * Cardinality({ j \in 1..Len(Considered) :
                                 /\ Considered[j][f].present
                                 /\ Considered[j][f].v = v }) : v \in ValuesOf(f) })

\* an average over the present values only, absent when there is none
IsAverage(a, f, scale) ==
    /\ a.present <=> ValuesOf(f) # {}
    /\ a.present => 2 * Gap(a.v * CountOf(f), scale * TotalOf(f)) <= CountOf(f)

IsMaximum(a, f) ==
    /\ a.present <=> ValuesOf(f) # {}
    /\ a.present => a.v \in ValuesOf(f) /\ \A v \in ValuesOf(f) : v <= a.v

IsMinimum(a, f) ==
    /\ a.present <=> ValuesOf(f) # {}
    /\ a.present => a.v \in ValuesOf(f) /\ \A v \in ValuesOf(f) : a.v <= v

\* C26: each scalar aggregate of trip_summary and of /stats is computed over
\* the present values of its field only, and is absent, never 0, when every
\* Reading considered lacks the field.
C26_AggregatesOverPresentValues ==
    /\ Summarized =>
        /\ IsAverage(anOut.average_speed_mph, "speed", 1)
        /\ IsMaximum(anOut.max_speed_mph, "speed")
        /\ IsMaximum(anOut.max_rpm, "rpm")
        /\ IsMaximum(anOut.max_coolant_temp_f, "coolant")
        /\ IsAverage(anOut.average_throttle_pct, "throttle", 1)
    /\ (anOp = "stats" /\ anDone /\ anOut.kind = "stats") =>
        /\ IsAverage(anOut.average_rpm, "rpm", 10)
        /\ IsAverage(anOut.average_speed_mph, "speed", 1)
        /\ IsMaximum(anOut.max_coolant_temp_f, "coolant")
        /\ IsMinimum(anOut.min_coolant_temp_f, "coolant")
        /\ IsAverage(anOut.average_throttle_pct, "throttle", 1)

C26_Witness ==
    /\ anOp = "stats"
    /\ anDone
    /\ anOut.kind = "stats"
    /\ anOut.readings_analyzed > 1
    /\ ~anOut.average_throttle_pct.present
    /\ anOut.average_speed_mph.present
    /\ \E i \in 1..Len(Considered) : ~Considered[i].speed.present

\* C27: over ten Readings at 1 Hz with speed_mph = 30 and maf_gps = 5,
\* trip_summary yields a distance of about 0.0833 mile, about 0.001216 gallon
\* of fuel and about 68.5 mpg, each to the resolution of its field (a hundredth
\* of a mile, a thousandth of a gallon) and the mpg within 1 mpg.  Violated:
\* mpg is the quotient of the rounded 0.08 and 0.001, 80.0.
C27_ScenarioNumbers ==
    (Summarized /\ anStore = ScenarioStore /\ anWindow = ScenarioWindow) =>
        /\ anOut.total_samples = 10
        /\ anOut.total_distance_miles = 8
        /\ anOut.fuel_used_gallons = Val(1)
        /\ anOut.mpg_estimate.present
        /\ Gap(anOut.mpg_estimate.v, 685) <= 10

VehicleStateDone == anOp = "state" /\ anDone /\ anOut.kind = "state"

\* C28: the classifier maps the latest Reading's coolant_temp_f to cool below
\* 140, normal from 140 to 220 inclusive, hot above 220, unknown when absent.
C28_TemperatureBands ==
    VehicleStateDone =>
        LET coolant == anStore[Len(anStore)].coolant
            status == anOut.engine_temp_status IN
        /\ status = "unknown" <=> ~coolant.present
        /\ status = "cool" <=> coolant.present /\ coolant.v < 1400
        /\ status = "normal" <=> coolant.present /\ 1400 <= coolant.v /\ coolant.v <= 2200
        /\ status = "hot" <=> coolant.present /\ coolant.v > 2200

C28_Witness ==
    /\ VehicleStateDone
    /\ Len(anStore) > 1
    /\ anStore[1].coolant = Val(2201)
    /\ anStore[Len(anStore)].coolant = Val(1400)
    /\ anOut.engine_temp_status = "normal"

----------------------------------------------------------------------------
(* Properties of the simulated generator *)

\* C29: two calls of the simulated generator with the same phase return
\* identical Readings, whenever they are made.  Violated: the timestamp of a
\* Reading is the wall clock of the call, not a function of the phase.
C29_SamePhaseSameReading ==
    Len(genCalls) = MaxCalls =>
        \A i, j \in 1..MaxCalls : genCalls[i] = genCalls[j]

----------------------------------------------------------------------------
(* Properties of the CSV store *)

\* C30: under any interleaving of logger writes with dashboard reads, the
\* file holds exactly the rows the logger wrote, in order; a read never adds,
\* removes or rewrites a stored row.  Violated: a read of a file of fewer than
\* MIN_ROWS rows writes the file again, padded with fake rows.
C30_ReadersOnlyConsume == csvFile = csvLogged

----------------------------------------------------------------------------
(* Properties of the dashboard *)

\* the fetch of the latest refresh
LastFetch == fetchLog[Len(fetchLog)]

\* C31: after each refresh_dashboard call, simulated_mode is true and the
\* simulated-mode label is shown exactly when the data fetch of that refresh
\* raised or returned an empty reading; a later refresh whose fetch succeeds
\* returns the dashboard to live data.
C31_SimulatedIffFetchFailed ==
    frame_count > 0 =>
        /\ simulated_mode <=> LastFetch \in {"raise", "empty"}
        /\ sim_label <=> simulated_mode

C31_Witness ==
    /\ Len(fetchLog) >= 2
    /\ fetchLog[Len(fetchLog) - 1] \in {"raise", "empty"}
    /\ LastFetch = "ok"
    /\ ~simulated_mode
    /\ ~sim_label

\* C32: after on_close the scheduled refresh has been cancelled, after_id is
\* None and the root is destroyed, and refresh_dashboard does not run again.
C32_CloseStopsRefresh ==
    [][/\ (destroyed' /\ ~destroyed) =>
            /\ after_id' = NoAfter
            /\ \A c \in pending' : c.id # after_id
       /\ destroyed => /\ frame_count' = frame_count
                       /\ destroyed'
                       /\ after_id' = NoAfter]_vars

C32_Witness ==
    /\ destroyed
    /\ frame_count > 1
    /\ after_id = NoAfter
    /\ pending = {}

\* C33: every refresh_dashboard call, whether its data fetch succeeded or
\* failed, adds one to frame_count and schedules exactly one next refresh
\* after REFRESH_MS, which after_id names.
C33_EveryRefreshReschedules ==
    [][frame_count' # frame_count =>
          /\ frame_count' = frame_count + 1
          /\ \E c \in pending' :
                /\ c.id = after_id'
                /\ c.ms = 1000
                /\ c \notin pending
                /\ pending' \ pending = {c}]_vars

C33_Witness ==
    /\ frame_count > 1
    /\ LastFetch = "raise"
    /\ \E c \in pending : c.id = after_id

\* C40: in every state reachable by start, refresh_dashboard (called directly
\* or fired by its timer) and stop, at most one scheduled refresh is
\* outstanding and after_id is its id.  Violated: a direct call while a
\* refresh is scheduled schedules a second one and forgets the id of the first.
C40_OneScheduledRefresh ==
    ~destroyed =>
        /\ Cardinality(pending) <= 1
        /\ \A c \in pending : c.id = after_id

\* C39: in cli_obd_loop.main the counter is between 0 and max_failures - 1
\* whenever a tick is about to start, and it is never above max_failures at
\* any point of a run.
C39_CounterBounds ==
    program = "cli" =>
        /\ consecutive_failures \in 0..max_failures
        /\ (pc = "tick" => consecutive_failures \in 0..(max_failures - 1))

\* C39 witness: a tick is about to start with the counter one short of the
\* threshold, after a reconnect had already reset it once in this run.
C39_Witness ==
    /\ program = "cli"
    /\ pc = "tick"
    /\ consecutive_failures = max_failures - 1
    /\ failRun = max_failures - 1
    /\ prevConn # "none"

\* the step is a pass of cli_obd_loop.main through its try block
CliTickStep == program = "cli" /\ pc = "tick" /\ pc' \in {"sleep", "close"}

\* C37: a tick of cli_obd_loop.main whose POST fails ends like a successful
\* one: the loop goes on to its sleep, the counter is 0, the Reading was
\* emitted, the handle is the one the tick started with, still open if it
\* was, and neither a close nor a connect has been made.
C37_PostFailureIsSwallowed ==
    [][CliTickStep /\ posted' = "failed" =>
            /\ pc' = "sleep"
            /\ consecutive_failures' = 0
            /\ lastTick' = "ok"
            /\ emitted' = 1
            /\ connection' = connection
            /\ closed' = closed
            /\ closeCalls' = 0
            /\ connects' = 0
            /\ log' = log]_vars

\* C37 witness: a tick on a live handle has read and printed its Reading,
\* the POST failed, and the loop is at its sleep with the counter at 0.
C37_Witness ==
    /\ program = "cli"
    /\ posted = "failed"
    /\ pc = "sleep"
    /\ source = "live"
    /\ connection # "none"
    /\ ~closed
    /\ consecutive_failures = 0

\* C34: a call of _read_obd_live that returns, that finds its connection not
\* connected or that has a query raise makes no close() call when the
\* connection was the caller's and exactly one, on the connection it opened,
\* when it was given none; on every path it closes as many connections as it
\* opened.
C34_ClosesWhatItOpened ==
    /\ lvCloses = lvOpened
    /\ (lvPath \in {"ok", "notconnected", "raise"} =>
            /\ lvOpened = (IF lvInjected THEN 0 ELSE 1)
            /\ lvCloses = (IF lvInjected THEN 0 ELSE 1))

\* C34 witness: a call that opened its own connection had a query raise and
\* closed it, after an earlier call that returned.
C34_Witness ==
    /\ lvPath = "raise"
    /\ ~lvInjected
    /\ lvOpened = 1
    /\ lvCloses = 1
    /\ lvDone = 1

\* the fields of _LAST_OBD_READING when the module is loaded
InitialField(s) == IF s \in {"load", "timing"} THEN Absent ELSE Val(0)

\* C38: in a call of _read_obd_live that returns, a field whose query met a
\* null response has the value the latest earlier call that returned gave
\* it, and its initial value (0, or absent for load and timing) when no
\* earlier call returned.
C38_NullFieldKeepsLastValue ==
    lvPath = "ok" =>
        \A s \in LiveSignals :
            rdQ[s].kind = "null" =>
                rdOut.fields[s] = (IF lvDone = 0 THEN InitialField(s) ELSE lvPrev[s])

\* C38 witness: the third call returns with a null rpm and reports the rpm
\* of the one earlier call that returned; the other earlier call raised.
C38_Witness ==
    /\ lvCalls = 3
    /\ lvPath = "ok"
    /\ lvDone = 1
    /\ rdQ["rpm"].kind = "null"
    /\ lvPrev["rpm"] = Val(1)
    /\ rdOut.fields["rpm"] = Val(1)
    /\ rdOut.fields["load"] = Absent

\* run_fake_cycles has returned or has been left by a KeyboardInterrupt
FakeOver == fake_pc \in {"done", "interrupted"}

\* C35: run_fake_cycles comes to an end; when it returns with no shutdown
\* requested it has written exactly count readings for a positive count; a
\* count of 0 or less writes none; and once shutdown is requested no cycle
\* starts: nothing more is written and the run is over at its next step.
C35_FakeRunWritesCount ==
    /\ <>FakeOver
    /\ [][/\ (fake_pc' = "done" /\ ~shutdown_requested' =>
                 fake_written' = (IF fake_count > 0 THEN fake_count ELSE 0))
          /\ (fake_count <= 0 => fake_written' = 0)
          /\ (shutdown_requested /\ fake_pc = "cycle" =>
                 fake_written' = fake_written /\ FakeOver')]_vars

\* C35 witness: the longest run has returned with as many readings written
\* as were asked for and two reconnects made, no shutdown requested.
C35_Witness ==
    /\ fake_pc = "done"
    /\ fake_count = MaxCount
    /\ fake_written = MaxCount
    /\ fake_completed
    /\ fake_connects = 2
    /\ ~shutdown_requested

====
